---- MODULE Spec2Model ----
(***************************************************************************)
(* WasmEdge WASI-NN Piper backend (plugins/wasi_nn/wasinn_piper.cpp).      *)
(* The model follows the five lifecycle operations load, initExecCtx,      *)
(* setInput, compute and getOutput over the host's graph and context       *)
(* tables, together with the JSON option parsers and the                   *)
(* updateSynthesisConfig merge they are built on.                          *)
(***************************************************************************)
EXTENDS Integers, Sequences, FiniteSets, TLC

VARIABLES NNGraph, NNContext, GraphIdOut, hist, ret

vars == <<NNGraph, NNContext, GraphIdOut, hist, ret>>

----------------------------------------------------------------------------
(* Bounds of the model.                                                    *)

\* graphs and execution contexts the host tables hold at most, together
MaxHandles == 4
\* largest caller buffer handed to getOutput, in bytes
MaxCap == 3
\* members of a phoneme_silence object at most
MaxMembers == 2

----------------------------------------------------------------------------
(* std::optional<T>: the empty tuple is "no value", <<v>> holds v.          *)

None == <<>>
Some(v) == <<v>>
HasValue(o) == o /= <<>>
Value(o) == o[1]

\* WASINN::ErrNo values the backend returns
Success == "Success"
InvalidArgument == "InvalidArgument"
InvalidEncoding == "InvalidEncoding"

----------------------------------------------------------------------------
(* JSON documents as simdjson's DOM presents them.  A value carries its    *)
(* kind k and, by kind, a string s, a number n or the members o of an      *)
(* object in document order.                                               *)

JAbsent == [k |-> "absent", s |-> "", n |-> 0, o |-> <<>>]
JStr(str) == [k |-> "string", s |-> str, n |-> 0, o |-> <<>>]
JInt(i) == [k |-> "int", s |-> "", n |-> i, o |-> <<>>]
JDbl(d) == [k |-> "double", s |-> "", n |-> d, o |-> <<>>]
JBool(b) == [k |-> "bool", s |-> "", n |-> IF b THEN 1 ELSE 0, o |-> <<>>]
JNull == [k |-> "null", s |-> "", n |-> 0, o |-> <<>>]
JObj(members) == [k |-> "object", s |-> "", n |-> 0, o |-> members]
\* a member of a nested object: its key as a sequence of codepoints
Member(key, val) == [key |-> key, val |-> val]

Keys ==
    {"model", "config", "output_type", "speaker", "speaker_id", "noise_scale",
     "length_scale", "noise_w", "sentence_silence", "phoneme_silence",
     "espeak_data", "tashkeel_model", "json_input", "text"}

\* a document whose root is an object with the given fields
Doc(fields) ==
    [root |-> "object",
     f |-> [key \in Keys |-> IF key \in DOMAIN fields THEN fields[key] ELSE JAbsent]]
\* text that is not JSON, and JSON whose root is no object
Malformed == [root |-> "malformed", f |-> [key \in Keys |-> JAbsent]]
NonObject == [root |-> "array", f |-> [key \in Keys |-> JAbsent]]

\* simdjson element.get<T>(): the kinds a value of type T is read from
Coercible(v, T) ==
    CASE T = "string" -> v.k = "string"
      [] T = "int64" -> v.k = "int"
      [] T = "double" -> v.k \in {"int", "double"}
      [] T = "bool" -> v.k = "bool"
      [] T = "object" -> v.k = "object"

\* the double -> float narrowing of getOptionalOption<float, double>: a float
\* has fewer digits than a double, here it keeps the even numbers only
ToFloat(d) == 2 * (d \div 2)

\* what element.get<T>() hands back for a value of a fitting kind
Read(v, T) ==
    CASE T = "string" -> v.s
      [] T = "int64" -> v.n
      [] T = "double" -> v.n
      [] T = "bool" -> (v.n = 1)
      [] T = "object" -> v.o

\* getOption<T>: (Success, false) for an absent key, (InvalidArgument, false)
\* for a value that is not a T, (Success, true) and the value otherwise
getOption(Object, Key, T, Result) ==
    IF ~Coercible(Object[Key], T)
    THEN IF Object[Key].k = "absent"
         THEN [err |-> Success, has |-> FALSE, val |-> Result]
         ELSE [err |-> InvalidArgument, has |-> FALSE, val |-> Result]
    ELSE [err |-> Success, has |-> TRUE, val |-> Read(Object[Key], T)]

\* getOptionalOption<T>: the optional is assigned only when the key has a value
getOptionalOption(Object, Key, T, Result) ==
    LET r == getOption(Object, Key, T, Result)
    IN  [err |-> r.err, val |-> IF r.has THEN Some(r.val) ELSE Result]

\* getOptionalOption<float, double>: read as a double, stored as a float
getOptionalFloat(Object, Key, Result) ==
    LET r == getOption(Object, Key, "double", 0)
    IN  [err |-> r.err, val |-> IF r.has THEN Some(ToFloat(r.val)) ELSE Result]

----------------------------------------------------------------------------
(* The texts the host hands over, by the JSON the parser reads in each.    *)
(* Numbers are given in the units of ToFloat; a phoneme is its codepoint.  *)

Parse(String) ==
    CASE String = "{model:text}" -> Doc([model |-> JStr("text.onnx")])
      [] String = "{model:text,json_input}" ->
           Doc([model |-> JStr("text.onnx"), json_input |-> JBool(TRUE)])
      [] String = "{model:text,json_input,output_type:raw,noise_scale:5,...}" ->
           Doc([model |-> JStr("text.onnx"), json_input |-> JBool(TRUE),
                output_type |-> JStr("raw"), noise_scale |-> JDbl(5),
                phoneme_silence |-> JObj(<<Member(<<98>>, JDbl(4))>>)])
      [] String = "{model:en,espeak_data,json_input}" ->
           Doc([model |-> JStr("en.onnx"), espeak_data |-> JStr("espeak-ng-data"),
                json_input |-> JBool(TRUE)])
      [] String = "{model:ar,espeak_data,tashkeel_model}" ->
           Doc([model |-> JStr("ar.onnx"), espeak_data |-> JStr("espeak-ng-data"),
                tashkeel_model |-> JStr("tashkeel.ort")])
      [] String = "{model:bare,config:alt}" ->
           Doc([model |-> JStr("bare.onnx"), config |-> JStr("alt.json")])
      \* graph-load documents that load refuses
      [] String = "{}" -> Doc(<<>>)
      [] String = "{model:5}" -> Doc([model |-> JInt(5)])
      [] String = "{model:missing}" -> Doc([model |-> JStr("missing.onnx")])
      [] String = "{model:bare}" -> Doc([model |-> JStr("bare.onnx")])
      [] String = "{model:text,config:missing}" ->
           Doc([model |-> JStr("text.onnx"), config |-> JStr("missing.json")])
      [] String = "{model:text,output_type:mp3}" ->
           Doc([model |-> JStr("text.onnx"), output_type |-> JStr("mp3")])
      [] String = "{model:text,speaker:alice}" ->
           Doc([model |-> JStr("text.onnx"), speaker |-> JStr("alice")])
      [] String = "{model:text,phoneme_silence:{ab:1}}" ->
           Doc([model |-> JStr("text.onnx"),
                phoneme_silence |-> JObj(<<Member(<<97, 98>>, JInt(1))>>)])
      [] String = "{model:text,json_input:yes}" ->
           Doc([model |-> JStr("text.onnx"), json_input |-> JStr("yes")])
      [] String = "{model:en,json_input}" ->
           Doc([model |-> JStr("en.onnx"), json_input |-> JBool(TRUE)])
      [] String = "{model:en,espeak_data:missing}" ->
           Doc([model |-> JStr("en.onnx"), espeak_data |-> JStr("missing-data")])
      [] String = "{model:ar,espeak_data}" ->
           Doc([model |-> JStr("ar.onnx"), espeak_data |-> JStr("espeak-ng-data")])
      [] String = "{model:ar,espeak_data,tashkeel_model:missing}" ->
           Doc([model |-> JStr("ar.onnx"), espeak_data |-> JStr("espeak-ng-data"),
                tashkeel_model |-> JStr("missing.ort")])
      \* requests
      [] String = "{text:hello}" -> Doc([text |-> JStr("hello")])
      [] String = "{text:hi,speaker_id:1,noise_scale:7,...}" ->
           Doc([text |-> JStr("hi"), speaker_id |-> JInt(1), noise_scale |-> JDbl(7),
                length_scale |-> JDbl(6), noise_w |-> JInt(6),
                sentence_silence |-> JDbl(6),
                phoneme_silence |-> JObj(<<Member(<<97>>, JDbl(6)),
                                           Member(<<98>>, JDbl(6))>>)])
      [] String = "{text:hi,speaker:nobody}" ->
           Doc([text |-> JStr("hi"), speaker |-> JStr("nobody")])
      [] String = "{text:hi,speaker:alice}" ->
           Doc([text |-> JStr("hi"), speaker |-> JStr("alice")])
      [] String = "{text:hello,speaker_id:0,speaker:alice}" ->
           Doc([text |-> JStr("hello"), speaker_id |-> JInt(0),
                speaker |-> JStr("alice")])
      [] String = "{text:hello,speaker_id:1,speaker:5}" ->
           Doc([text |-> JStr("hello"), speaker_id |-> JInt(1), speaker |-> JInt(5)])
      \* requests that setInput refuses in JSON-input mode
      [] String = "{speaker_id:1}" -> Doc([speaker_id |-> JInt(1)])
      [] String = "{text:5}" -> Doc([text |-> JInt(5)])
      [] String = "{text:bye,noise_scale:loud}" ->
           Doc([text |-> JStr("bye"), noise_scale |-> JStr("loud")])
      [] String = "{text:bye,speaker_id:one}" ->
           Doc([text |-> JStr("bye"), speaker_id |-> JStr("one")])
      [] String = "{text:bye,speaker:5}" ->
           Doc([text |-> JStr("bye"), speaker |-> JInt(5)])
      [] String = "{text:bye,phoneme_silence:{ab:1}}" ->
           Doc([text |-> JStr("bye"),
                phoneme_silence |-> JObj(<<Member(<<97, 98>>, JInt(1))>>)])
      \* requests and graph-load documents that name an output type
      [] String = "{text:hello,output_type:raw}" ->
           Doc([text |-> JStr("hello"), output_type |-> JStr("raw")])
      [] String = "{text:hello,output_type:wav}" ->
           Doc([text |-> JStr("hello"), output_type |-> JStr("wav")])
      [] String = "{text:bye,output_type:mp3}" ->
           Doc([text |-> JStr("bye"), output_type |-> JStr("mp3")])
      [] String = "{model:text,json_input,output_type:mp3}" ->
           Doc([model |-> JStr("text.onnx"), json_input |-> JBool(TRUE),
                output_type |-> JStr("mp3")])
      \* a graph-load document with silences for the phonemes a and b
      [] String = "{model:en,espeak_data,noise_scale:5,phoneme_silence:{a:4,b:4}}" ->
           Doc([model |-> JStr("en.onnx"), espeak_data |-> JStr("espeak-ng-data"),
                noise_scale |-> JDbl(5),
                phoneme_silence |-> JObj(<<Member(<<97>>, JDbl(4)),
                                           Member(<<98>>, JDbl(4))>>)])
      [] String = "{text:yo,length_scale:8}" ->
           Doc([text |-> JStr("yo"), length_scale |-> JDbl(8)])
      [] String = "{model:text,json_input:false}" ->
           Doc([model |-> JStr("text.onnx"), json_input |-> JBool(FALSE)])
      [] String = "{model:text,json_input:1}" ->
           Doc([model |-> JStr("text.onnx"), json_input |-> JInt(1)])
      [] String = "{model:text,json_input:null}" ->
           Doc([model |-> JStr("text.onnx"), json_input |-> JNull])
      [] String = "[]" -> NonObject
      [] OTHER -> Malformed

\* a tensor of the given dimensions, and the arguments of a setInput call
TensorData(Dimension, String) == [Dimension |-> Dimension, Tensor |-> String]
Tensor1(String) == TensorData(<<1>>, String)
Call(Index, T) == [Index |-> Index, Tensor |-> T]

----------------------------------------------------------------------------
(* SynthesisConfig: the sparse record of optional fields.                  *)

EmptySynthesisConfig ==
    [OutputType |-> None, SpeakerId |-> None, NoiseScale |-> None,
     LengthScale |-> None, NoiseW |-> None, SentenceSilenceSeconds |-> None,
     PhonemeSilenceSeconds |-> None]

\* piper::isSingleCodepoint and piper::getCodepoint on a key of codepoints
isSingleCodepoint(PhonemeStr) == Len(PhonemeStr) = 1
getCodepoint(PhonemeStr) == PhonemeStr[1]

\* map[Phoneme] = Seconds on a std::map
MapPut(m, key, val) ==
    [x \in DOMAIN m \cup {key} |-> IF x = key THEN val ELSE m[x]]

\* one step of a parser: stop at the first error
Then(res, Step(_)) == IF res.err /= Success THEN res ELSE Step(res.cfg)

Ok(cfg) == [err |-> Success, cfg |-> cfg]
Fail(err, cfg) == [err |-> err, cfg |-> cfg]

\* a parser that takes an output type it does not know for none given
parseOutputType_lenient(SC, Object) ==
    LET r == getOptionalOption(Object, "output_type", "string", None)
    IN  IF r.err /= Success THEN Fail(r.err, SC)
        ELSE IF ~HasValue(r.val) THEN Ok(SC)
        ELSE IF Value(r.val) = "wav" THEN Ok([SC EXCEPT !.OutputType = Some("OUTPUT_WAV")])
        ELSE IF Value(r.val) = "raw" THEN Ok([SC EXCEPT !.OutputType = Some("OUTPUT_RAW")])
        ELSE Ok(SC)

parseOutputType(SC, Object) ==
    LET r == getOptionalOption(Object, "output_type", "string", None)
    IN  IF r.err /= Success THEN Fail(r.err, SC)
        ELSE IF ~HasValue(r.val) THEN Ok(SC)
        ELSE IF Value(r.val) = "wav" THEN Ok([SC EXCEPT !.OutputType = Some("OUTPUT_WAV")])
        ELSE IF Value(r.val) = "raw" THEN Ok([SC EXCEPT !.OutputType = Some("OUTPUT_RAW")])
        ELSE Fail(InvalidArgument, SC)

parseSpeakerId(SC, Object, JsonInput) ==
    LET r == getOptionalOption(Object, IF JsonInput THEN "speaker_id" ELSE "speaker",
                               "int64", SC.SpeakerId)
    IN  [err |-> r.err, cfg |-> [SC EXCEPT !.SpeakerId = r.val]]

parseFloatField(SC, Object, Key, Field) ==
    LET r == getOptionalFloat(Object, Key, SC[Field])
    IN  [err |-> r.err, cfg |-> [SC EXCEPT ![Field] = r.val]]

\* the loop over the members of phoneme_silence, from member i on
RECURSIVE parsePhonemeEntries(_, _, _)
parsePhonemeEntries(SC, members, i) ==
    IF i > Len(members) THEN Ok(SC)
    ELSE IF ~isSingleCodepoint(members[i].key) THEN Fail(InvalidArgument, SC)
    ELSE IF ~Coercible(members[i].val, "double") THEN Fail(InvalidArgument, SC)
    ELSE LET m == IF HasValue(SC.PhonemeSilenceSeconds)
                  THEN Value(SC.PhonemeSilenceSeconds) ELSE <<>>
             Phoneme == getCodepoint(members[i].key)
             Seconds == ToFloat(Read(members[i].val, "double"))
         IN  parsePhonemeEntries(
                 [SC EXCEPT !.PhonemeSilenceSeconds = Some(MapPut(m, Phoneme, Seconds))],
                 members, i + 1)

\* a parser that allocates the map as soon as the field is an object
parsePhonemeSilence_eager(SC, Object) ==
    LET r == getOptionalOption(Object, "phoneme_silence", "object", None)
    IN  IF r.err /= Success THEN Fail(r.err, SC)
        ELSE IF ~HasValue(r.val) THEN Ok(SC)
        ELSE parsePhonemeEntries(
                 [SC EXCEPT !.PhonemeSilenceSeconds =
                     IF HasValue(@) THEN @ ELSE Some(<<>>)],
                 Value(r.val), 1)

parsePhonemeSilence(SC, Object) ==
    LET r == getOptionalOption(Object, "phoneme_silence", "object", None)
    IN  IF r.err /= Success THEN Fail(r.err, SC)
        ELSE IF ~HasValue(r.val) THEN Ok(SC)
        ELSE parsePhonemeEntries(SC, Value(r.val), 1)

parseSynthesisConfig(SC, Object, JsonInput) ==
    Then(Then(Then(Then(Then(Then(
        parseOutputType(SC, Object),
        LAMBDA c : parseSpeakerId(c, Object, JsonInput)),
        LAMBDA c : parseFloatField(c, Object, "noise_scale", "NoiseScale")),
        LAMBDA c : parseFloatField(c, Object, "length_scale", "LengthScale")),
        LAMBDA c : parseFloatField(c, Object, "noise_w", "NoiseW")),
        LAMBDA c : parseFloatField(c, Object, "sentence_silence", "SentenceSilenceSeconds")),
        LAMBDA c : parsePhonemeSilence(c, Object))

----------------------------------------------------------------------------
(* updateSynthesisConfig: the sparse config applied onto the engine's      *)
(* piper::SynthesisConfig.                                                 *)

\* a merge that assigns every incoming entry, replacing the engine's
MergePhonemeSilence_assign(Engine, Incoming) ==
    [x \in DOMAIN Engine \cup DOMAIN Incoming |->
        IF x \in DOMAIN Incoming THEN Incoming[x] ELSE Engine[x]]

\* try_emplace of every incoming entry: a phoneme the engine map has keeps
\* its seconds
MergePhonemeSilence(Engine, Incoming) ==
    [x \in DOMAIN Engine \cup DOMAIN Incoming |->
        IF x \in DOMAIN Engine THEN Engine[x] ELSE Incoming[x]]

updatePhonemeSilence(Incoming, Engine, Force) ==
    IF Force THEN Incoming
    ELSE IF HasValue(Incoming)
         THEN IF ~HasValue(Engine) THEN Incoming
              ELSE Some(MergePhonemeSilence(Value(Engine), Value(Incoming)))
         ELSE Engine

\* an update that also carries the sparse config's speaker to the engine
updateSynthesisConfig_speaker(SC, Piper, ForceOverwritePhonemeSilenceSeconds) ==
    [speakerId |-> IF HasValue(SC.SpeakerId) THEN SC.SpeakerId ELSE Piper.speakerId,
     noiseScale |->
        IF HasValue(SC.NoiseScale) THEN Value(SC.NoiseScale) ELSE Piper.noiseScale,
     lengthScale |->
        IF HasValue(SC.LengthScale) THEN Value(SC.LengthScale) ELSE Piper.lengthScale,
     noiseW |-> IF HasValue(SC.NoiseW) THEN Value(SC.NoiseW) ELSE Piper.noiseW,
     sentenceSilenceSeconds |->
        IF HasValue(SC.SentenceSilenceSeconds)
        THEN Value(SC.SentenceSilenceSeconds) ELSE Piper.sentenceSilenceSeconds,
     phonemeSilenceSeconds |->
        updatePhonemeSilence(SC.PhonemeSilenceSeconds, Piper.phonemeSilenceSeconds,
                             ForceOverwritePhonemeSilenceSeconds)]

updateSynthesisConfig(SC, Piper, ForceOverwritePhonemeSilenceSeconds) ==
    [speakerId |-> Piper.speakerId,
     noiseScale |->
        IF HasValue(SC.NoiseScale) THEN Value(SC.NoiseScale) ELSE Piper.noiseScale,
     lengthScale |->
        IF HasValue(SC.LengthScale) THEN Value(SC.LengthScale) ELSE Piper.lengthScale,
     noiseW |-> IF HasValue(SC.NoiseW) THEN Value(SC.NoiseW) ELSE Piper.noiseW,
     sentenceSilenceSeconds |->
        IF HasValue(SC.SentenceSilenceSeconds)
        THEN Value(SC.SentenceSilenceSeconds) ELSE Piper.sentenceSilenceSeconds,
     phonemeSilenceSeconds |->
        updatePhonemeSilence(SC.PhonemeSilenceSeconds, Piper.phonemeSilenceSeconds,
                             ForceOverwritePhonemeSilenceSeconds)]

----------------------------------------------------------------------------
(* The files the host can see, and the voices the model files hold.        *)

ExistingPaths ==
    {"text.onnx", "text.onnx.json", "en.onnx", "en.onnx.json", "ar.onnx",
     "ar.onnx.json", "bare.onnx", "alt.json", "espeak-ng-data", "tashkeel.ort"}

exists(Path) == Path \in ExistingPaths

\* what piper::loadVoice reads from a voice's companion config: the phoneme
\* backend, the eSpeak voice, the speakers and the built-in synthesis values
VoiceFile(ModelConfigPath) ==
    CASE ModelConfigPath = "en.onnx.json" ->
           [phonemeType |-> "eSpeakPhonemes", eSpeakVoice |-> "en", numSpeakers |-> 2,
            speakerIdMap |-> Some([alice |-> 1, bob |-> 0]),
            noiseScale |-> 2, lengthScale |-> 2, noiseW |-> 2,
            sentenceSilenceSeconds |-> 2, phonemeSilenceSeconds |-> Some(97 :> 2)]
      [] ModelConfigPath = "ar.onnx.json" ->
           [phonemeType |-> "eSpeakPhonemes", eSpeakVoice |-> "ar", numSpeakers |-> 1,
            speakerIdMap |-> None,
            noiseScale |-> 2, lengthScale |-> 2, noiseW |-> 2,
            sentenceSilenceSeconds |-> 2, phonemeSilenceSeconds |-> None]
      [] OTHER ->
           [phonemeType |-> "TextPhonemes", eSpeakVoice |-> "", numSpeakers |-> 1,
            speakerIdMap |-> None,
            noiseScale |-> 2, lengthScale |-> 2, noiseW |-> 2,
            sentenceSilenceSeconds |-> 2, phonemeSilenceSeconds |-> None]

\* piper::loadVoice: the engine's speaker is the requested one on a voice of
\* several speakers (speaker 0 without a request), and unset otherwise
loadVoice(ModelPath, ModelConfigPath, SpeakerId) ==
    LET file == VoiceFile(ModelConfigPath)
    IN  [phonemeType |-> file.phonemeType,
         eSpeakVoice |-> file.eSpeakVoice,
         speakerIdMap |-> file.speakerIdMap,
         synthesisConfig |->
            [speakerId |-> IF file.numSpeakers > 1
                           THEN IF HasValue(SpeakerId) THEN SpeakerId ELSE Some(0)
                           ELSE None,
             noiseScale |-> file.noiseScale,
             lengthScale |-> file.lengthScale,
             noiseW |-> file.noiseW,
             sentenceSilenceSeconds |-> file.sentenceSilenceSeconds,
             phonemeSilenceSeconds |-> file.phonemeSilenceSeconds]]

----------------------------------------------------------------------------
(* parseRunConfig: the graph-load JSON into a RunConfig.                   *)

NewRunConfig ==
    [ModelPath |-> "", ModelConfigPath |-> "", ESpeakDataPath |-> None,
     TashkeelModelPath |-> None, JsonInput |-> FALSE,
     DefaultSynthesisConfig |-> EmptySynthesisConfig]

parseModel(RC, Object) ==
    LET r == getOptionalOption(Object, "model", "string", None)
    IN  IF r.err /= Success THEN Fail(r.err, RC)
        ELSE IF HasValue(r.val)
             THEN IF ~exists(Value(r.val)) THEN Fail(InvalidArgument, RC)
                  ELSE Ok([RC EXCEPT !.ModelPath = Value(r.val)])
             ELSE Fail(InvalidArgument, RC)

\* a parser that takes the model file itself for its companion config
parseModelConfig_noSuffix(RC, Object) ==
    LET r == getOptionalOption(Object, "config", "string", None)
        rc == [RC EXCEPT !.ModelConfigPath =
                  IF HasValue(r.val) THEN Value(r.val) ELSE RC.ModelPath]
    IN  IF r.err /= Success THEN Fail(r.err, RC)
        ELSE IF ~exists(rc.ModelConfigPath) THEN Fail(InvalidArgument, rc)
        ELSE Ok(rc)

parseModelConfig(RC, Object) ==
    LET r == getOptionalOption(Object, "config", "string", None)
        rc == [RC EXCEPT !.ModelConfigPath =
                  IF HasValue(r.val) THEN Value(r.val) ELSE RC.ModelPath \o ".json"]
    IN  IF r.err /= Success THEN Fail(r.err, RC)
        ELSE IF ~exists(rc.ModelConfigPath) THEN Fail(InvalidArgument, rc)
        ELSE Ok(rc)

parseDefaultSynthesisConfig(RC, Object) ==
    LET r == parseSynthesisConfig(RC.DefaultSynthesisConfig, Object, FALSE)
    IN  [err |-> r.err, cfg |-> [RC EXCEPT !.DefaultSynthesisConfig = r.cfg]]

parsePath(RC, Object, Key, Field) ==
    LET r == getOptionalOption(Object, Key, "string", None)
    IN  IF r.err /= Success THEN Fail(r.err, RC)
        ELSE IF HasValue(r.val) THEN Ok([RC EXCEPT ![Field] = r.val])
        ELSE Ok(RC)

\* a json_input that is read only when it is a boolean
parseJsonInput_lenient(RC, Object) ==
    LET r == getOption(Object, "json_input", "bool", RC.JsonInput)
    IN  [err |-> Success, cfg |-> [RC EXCEPT !.JsonInput = r.val]]

parseJsonInput(RC, Object) ==
    LET r == getOption(Object, "json_input", "bool", RC.JsonInput)
    IN  [err |-> r.err, cfg |-> [RC EXCEPT !.JsonInput = r.val]]

\* parseRunConfig behind the parser: Parsed is what the parser made of the text
parseRunConfigDoc(RC, Parsed) ==
    IF Parsed.root = "malformed" THEN Fail(InvalidEncoding, RC)
    ELSE IF Parsed.root /= "object" THEN Fail(InvalidArgument, RC)
    ELSE Then(Then(Then(Then(Then(
            parseModel(RC, Parsed.f),
            LAMBDA c : parseModelConfig(c, Parsed.f)),
            LAMBDA c : parseDefaultSynthesisConfig(c, Parsed.f)),
            LAMBDA c : parsePath(c, Parsed.f, "espeak_data", "ESpeakDataPath")),
            LAMBDA c : parsePath(c, Parsed.f, "tashkeel_model", "TashkeelModelPath")),
            LAMBDA c : parseJsonInput(c, Parsed.f))

parseRunConfig(RC, String) == parseRunConfigDoc(RC, Parse(String))

----------------------------------------------------------------------------
(* The host's graph and context tables (WasiNNEnvironment).                *)

\* a graph slot as Env.newGraph leaves it, with load's fresh RunConfig
NewGraph ==
    [ready |-> FALSE, Config |-> NewRunConfig,
     PiperConfig |-> [eSpeakDataPath |-> "", useESpeak |-> TRUE,
                      useTashkeel |-> FALSE, tashkeelModelPath |-> None],
     Voice |-> None]

\* Env.newGraph: the id of the slot the new graph takes
newGraphId(graphs) == CHOOSE id \in 0..Cardinality(DOMAIN graphs) :
                         /\ id \notin DOMAIN graphs
                         /\ \A other \in 0..(id - 1) : other \in DOMAIN graphs

newGraph(graphs) == [id \in DOMAIN graphs \cup {newGraphId(graphs)} |->
                        IF id \in DOMAIN graphs THEN graphs[id] ELSE NewGraph]

\* Env.deleteGraph: the slot leaves the table
deleteGraph(graphs, Id) == [id \in DOMAIN graphs \ {Id} |-> graphs[id]]

\* Env.newContext: a context bound to GraphId, nothing set yet
NewContext(GraphId) ==
    [GraphId |-> GraphId, Line |-> None, JsonInputSynthesisConfig |-> None,
     Output |-> None]

newContext(contexts, GraphId) ==
    [id \in 0..Cardinality(DOMAIN contexts) |->
        IF id \in DOMAIN contexts THEN contexts[id] ELSE NewContext(GraphId)]

----------------------------------------------------------------------------
(* load                                                                    *)

loadParse(G, String) ==
    LET r == parseRunConfig(G.Config, String)
    IN  [err |-> r.err, cfg |-> [G EXCEPT !.Config = r.cfg]]

loadVoiceStep(G) ==
    Ok([G EXCEPT !.Voice = Some(loadVoice(G.Config.ModelPath, G.Config.ModelConfigPath,
                                           G.Config.DefaultSynthesisConfig.SpeakerId))])

loadESpeak(G) ==
    IF Value(G.Voice).phonemeType = "eSpeakPhonemes"
    THEN IF ~HasValue(G.Config.ESpeakDataPath) THEN Fail(InvalidArgument, G)
         ELSE IF ~exists(Value(G.Config.ESpeakDataPath)) THEN Fail(InvalidArgument, G)
         ELSE Ok([G EXCEPT !.PiperConfig.eSpeakDataPath = Value(G.Config.ESpeakDataPath)])
    ELSE Ok([G EXCEPT !.PiperConfig.useESpeak = FALSE])

loadTashkeel(G) ==
    IF Value(G.Voice).eSpeakVoice = "ar"
    THEN IF ~HasValue(G.Config.TashkeelModelPath) THEN Fail(InvalidArgument, G)
         ELSE IF ~exists(Value(G.Config.TashkeelModelPath)) THEN Fail(InvalidArgument, G)
         ELSE Ok([G EXCEPT !.PiperConfig.useTashkeel = TRUE,
                           !.PiperConfig.tashkeelModelPath = G.Config.TashkeelModelPath])
    ELSE Ok(G)

\* a load that applies the defaults to the engine and copies nothing back
loadDefaults_noCopyBack(G) ==
    LET synth == updateSynthesisConfig(G.Config.DefaultSynthesisConfig,
                                       Value(G.Voice).synthesisConfig, FALSE)
    IN  Ok([G EXCEPT
              !.Voice = Some([Value(G.Voice) EXCEPT !.synthesisConfig = synth])])

\* "Update the default config" and "Copy back the result"
loadDefaults(G) ==
    LET synth == updateSynthesisConfig(G.Config.DefaultSynthesisConfig,
                                       Value(G.Voice).synthesisConfig, FALSE)
    IN  Ok([G EXCEPT
              !.Voice = Some([Value(G.Voice) EXCEPT !.synthesisConfig = synth]),
              !.Config.DefaultSynthesisConfig =
                  [@ EXCEPT !.NoiseScale = Some(synth.noiseScale),
                            !.LengthScale = Some(synth.lengthScale),
                            !.NoiseW = Some(synth.noiseW),
                            !.SentenceSilenceSeconds = Some(synth.sentenceSilenceSeconds),
                            !.PhonemeSilenceSeconds = synth.phonemeSilenceSeconds]])

\* the body of load from the parse of the run config to the copy back
loadGraph(String) ==
    Then(Then(Then(Then(
        loadParse(NewGraph, String),
        LAMBDA g : loadVoiceStep(g)),
        LAMBDA g : loadESpeak(g)),
        LAMBDA g : loadTashkeel(g)),
        LAMBDA g : loadDefaults(g))

\* a load that returns its failure without deleting the graph it allocated
loadReturn_keepsGraph(graphs, GId, GraphId, res) ==
    IF res.err /= Success
    THEN [err |-> res.err, NNGraph |-> graphs, GraphId |-> GraphId, allocated |-> TRUE]
    ELSE [err |-> Success,
          NNGraph |-> [graphs EXCEPT ![GId] = [res.cfg EXCEPT !.ready = TRUE]],
          GraphId |-> Some(GId), allocated |-> TRUE]

\* how load leaves: a failure deletes the graph it allocated, a success stores
\* the id for the caller and marks the graph ready
loadReturn(graphs, GId, GraphId, res) ==
    IF res.err /= Success
    THEN [err |-> res.err, NNGraph |-> deleteGraph(graphs, GId), GraphId |-> GraphId,
          allocated |-> TRUE]
    ELSE [err |-> Success,
          NNGraph |-> [graphs EXCEPT ![GId] = [res.cfg EXCEPT !.ready = TRUE]],
          GraphId |-> Some(GId), allocated |-> TRUE]

load(graphs, Builders, GraphId) ==
    IF Len(Builders) /= 1
    THEN [err |-> InvalidArgument, NNGraph |-> graphs, GraphId |-> GraphId,
          allocated |-> FALSE]
    ELSE loadReturn(newGraph(graphs), newGraphId(graphs), GraphId,
                    loadGraph(Builders[1]))

----------------------------------------------------------------------------
(* initExecCtx, setInput                                                   *)

initExecCtx(contexts, GraphId) ==
    [err |-> Success, NNContext |-> newContext(contexts, GraphId),
     ContextId |-> Cardinality(DOMAIN contexts)]

\* a lookup that refuses a name the voice has no id for
resolveSpeaker_strict(SC, Object, Voice) ==
    IF HasValue(SC.SpeakerId) THEN Ok(SC)
    ELSE LET r == getOptionalOption(Object, "speaker", "string", None)
         IN  IF r.err /= Success THEN Fail(r.err, SC)
             ELSE IF ~HasValue(r.val) THEN Ok(SC)
             ELSE IF HasValue(Voice.speakerIdMap)
                       /\ Value(r.val) \in DOMAIN Value(Voice.speakerIdMap)
                  THEN Ok([SC EXCEPT
                              !.SpeakerId = Some(Value(Voice.speakerIdMap)[Value(r.val)])])
                  ELSE Fail(InvalidArgument, SC)

\* the "speaker" name of a request, looked up in the voice's speakerIdMap
resolveSpeaker(SC, Object, Voice) ==
    IF HasValue(SC.SpeakerId) THEN Ok(SC)
    ELSE LET r == getOptionalOption(Object, "speaker", "string", None)
         IN  IF r.err /= Success THEN Fail(r.err, SC)
             ELSE IF HasValue(r.val)
                       /\ HasValue(Voice.speakerIdMap)
                       /\ Value(r.val) \in DOMAIN Value(Voice.speakerIdMap)
                  THEN Ok([SC EXCEPT
                              !.SpeakerId = Some(Value(Voice.speakerIdMap)[Value(r.val)])])
                  ELSE Ok(SC)

\* the JSON-input branch of setInput: the line and the override of a request
decodeJsonInput(Line, Voice) ==
    LET Parsed == Parse(Line)
    IN  IF Parsed.root = "malformed" THEN Fail(InvalidEncoding, None)
        ELSE IF Parsed.root /= "object" THEN Fail(InvalidArgument, None)
        ELSE IF ~Coercible(Parsed.f["text"], "string") THEN Fail(InvalidArgument, None)
        ELSE LET Text == Read(Parsed.f["text"], "string")
                 r == Then(parseSynthesisConfig(EmptySynthesisConfig, Parsed.f, TRUE),
                           LAMBDA c : resolveSpeaker(c, Parsed.f, Voice))
             IN  IF r.err /= Success THEN Fail(r.err, None)
                 ELSE Ok([Line |-> Text, JsonInputSynthesisConfig |-> r.cfg])

\* a setInput that keeps, for every field the request leaves out, the field
\* of the override the context already carries
setInput_merging(graphs, contexts, ContextId, Index, Tensor) ==
    IF Index /= 0 THEN [err |-> InvalidArgument, NNContext |-> contexts]
    ELSE IF ~(Len(Tensor.Dimension) = 1 /\ Tensor.Dimension[1] = 1)
    THEN [err |-> InvalidArgument, NNContext |-> contexts]
    ELSE LET CxtRef == contexts[ContextId]
             GraphRef == graphs[CxtRef.GraphId]
             Old == IF HasValue(CxtRef.JsonInputSynthesisConfig)
                    THEN Value(CxtRef.JsonInputSynthesisConfig)
                    ELSE EmptySynthesisConfig
         IN  IF GraphRef.Config.JsonInput
             THEN LET r == decodeJsonInput(Tensor.Tensor, Value(GraphRef.Voice))
                      New == r.cfg.JsonInputSynthesisConfig
                  IN  IF r.err /= Success
                      THEN [err |-> r.err, NNContext |-> contexts]
                      ELSE [err |-> Success,
                            NNContext |-> [contexts EXCEPT ![ContextId] =
                                [@ EXCEPT !.JsonInputSynthesisConfig =
                                              Some([k \in DOMAIN New |->
                                                      IF HasValue(New[k]) THEN New[k]
                                                      ELSE Old[k]]),
                                          !.Line = Some(r.cfg.Line)]]]
             ELSE [err |-> Success,
                   NNContext |-> [contexts EXCEPT ![ContextId].Line = Some(Tensor.Tensor)]]

\* a setInput that stores the request on every context of the graph
setInput_perGraph(graphs, contexts, ContextId, Index, Tensor) ==
    IF Index /= 0 THEN [err |-> InvalidArgument, NNContext |-> contexts]
    ELSE IF ~(Len(Tensor.Dimension) = 1 /\ Tensor.Dimension[1] = 1)
    THEN [err |-> InvalidArgument, NNContext |-> contexts]
    ELSE LET CxtRef == contexts[ContextId]
             GraphRef == graphs[CxtRef.GraphId]
             Same(c) == contexts[c].GraphId = CxtRef.GraphId
         IN  IF GraphRef.Config.JsonInput
             THEN LET r == decodeJsonInput(Tensor.Tensor, Value(GraphRef.Voice))
                  IN  IF r.err /= Success
                      THEN [err |-> r.err, NNContext |-> contexts]
                      ELSE [err |-> Success,
                            NNContext |->
                               [c \in DOMAIN contexts |->
                                  IF Same(c)
                                  THEN [contexts[c] EXCEPT
                                          !.JsonInputSynthesisConfig =
                                              Some(r.cfg.JsonInputSynthesisConfig),
                                          !.Line = Some(r.cfg.Line)]
                                  ELSE contexts[c]]]
             ELSE [err |-> Success,
                   NNContext |->
                      [c \in DOMAIN contexts |->
                         IF Same(c)
                         THEN [contexts[c] EXCEPT !.Line = Some(Tensor.Tensor)]
                         ELSE contexts[c]]]

\* a setInput that assigns the request's text to the context as soon as it is
\* read, before the override fields are decoded
setInput_storesEarly(graphs, contexts, ContextId, Index, Tensor) ==
    IF Index /= 0 THEN [err |-> InvalidArgument, NNContext |-> contexts]
    ELSE IF ~(Len(Tensor.Dimension) = 1 /\ Tensor.Dimension[1] = 1)
    THEN [err |-> InvalidArgument, NNContext |-> contexts]
    ELSE LET CxtRef == contexts[ContextId]
             GraphRef == graphs[CxtRef.GraphId]
             Parsed == Parse(Tensor.Tensor)
         IN  IF GraphRef.Config.JsonInput
             THEN LET r == decodeJsonInput(Tensor.Tensor, Value(GraphRef.Voice))
                  IN  IF r.err /= Success
                      THEN [err |-> r.err,
                            NNContext |->
                               IF Parsed.root = "object"
                                  /\ Coercible(Parsed.f["text"], "string")
                               THEN [contexts EXCEPT ![ContextId].Line =
                                        Some(Read(Parsed.f["text"], "string"))]
                               ELSE contexts]
                      ELSE [err |-> Success,
                            NNContext |-> [contexts EXCEPT ![ContextId] =
                                [@ EXCEPT !.JsonInputSynthesisConfig =
                                              Some(r.cfg.JsonInputSynthesisConfig),
                                          !.Line = Some(r.cfg.Line)]]]
             ELSE [err |-> Success,
                   NNContext |-> [contexts EXCEPT ![ContextId].Line = Some(Tensor.Tensor)]]

setInput(graphs, contexts, ContextId, Index, Tensor) ==
    IF Index /= 0 THEN [err |-> InvalidArgument, NNContext |-> contexts]
    ELSE IF ~(Len(Tensor.Dimension) = 1 /\ Tensor.Dimension[1] = 1)
    THEN [err |-> InvalidArgument, NNContext |-> contexts]
    ELSE LET CxtRef == contexts[ContextId]
             GraphRef == graphs[CxtRef.GraphId]
         IN  IF GraphRef.Config.JsonInput
             THEN LET r == decodeJsonInput(Tensor.Tensor, Value(GraphRef.Voice))
                  IN  IF r.err /= Success
                      THEN [err |-> r.err, NNContext |-> contexts]
                      ELSE [err |-> Success,
                            NNContext |-> [contexts EXCEPT ![ContextId] =
                                [@ EXCEPT !.JsonInputSynthesisConfig =
                                              Some(r.cfg.JsonInputSynthesisConfig),
                                          !.Line = Some(r.cfg.Line)]]]
             ELSE [err |-> Success,
                   NNContext |-> [contexts EXCEPT ![ContextId].Line = Some(Tensor.Tensor)]]

----------------------------------------------------------------------------
(* compute                                                                 *)

\* the bytes of a std::vector<int16_t> as memcpy lays them out
RECURSIVE Int16Bytes(_)
Int16Bytes(AudioBuffer) ==
    IF AudioBuffer = <<>> THEN <<>>
    ELSE <<Head(AudioBuffer) % 256, Head(AudioBuffer) \div 256>>
         \o Int16Bytes(Tail(AudioBuffer))

\* piper::textToWavFile: the samples behind the container's header, the header
\* cut to its first byte
textToWavFile(AudioBuffer) == <<82>> \o Int16Bytes(AudioBuffer)

\* a choice in which the graph's default output type beats the request's
effectiveOutputType_defaultFirst(Default, Override) ==
    IF HasValue(Default.OutputType) THEN Value(Default.OutputType)
    ELSE IF HasValue(Override) /\ HasValue(Value(Override).OutputType)
    THEN Value(Value(Override).OutputType)
    ELSE "OUTPUT_WAV"

\* the output type compute synthesizes
effectiveOutputType(Default, Override) ==
    IF HasValue(Override) /\ HasValue(Value(Override).OutputType)
    THEN Value(Value(Override).OutputType)
    ELSE IF HasValue(Default.OutputType) THEN Value(Default.OutputType)
    ELSE "OUTPUT_WAV"

\* "Override config": the engine config the synthesis runs with
applyOverride(Override, Piper) ==
    IF HasValue(Override) THEN updateSynthesisConfig(Value(Override), Piper, FALSE)
    ELSE Piper

\* a restore that merges, as the override does, instead of overwriting
restoreConfig_merging(Default, Piper) == updateSynthesisConfig(Default, Piper, FALSE)

\* "Restore config (json_input)"
restoreConfig(Default, Piper) == updateSynthesisConfig(Default, Piper, TRUE)

synthesize(OutputType, AudioBuffer) ==
    IF OutputType = "OUTPUT_WAV" THEN textToWavFile(AudioBuffer)
    ELSE Int16Bytes(AudioBuffer)

\* a compute that never looks at the input
inputIsSet_unchecked(CxtRef) == TRUE

\* "Input is not set."
inputIsSet(CxtRef) == HasValue(CxtRef.Line)

\* AudioBuffer: the samples the engine produces for this request
compute(graphs, contexts, ContextId, AudioBuffer) ==
    LET CxtRef == contexts[ContextId]
        GraphRef == graphs[CxtRef.GraphId]
        Voice == Value(GraphRef.Voice)
        Default == GraphRef.Config.DefaultSynthesisConfig
        OutputType == effectiveOutputType(Default, CxtRef.JsonInputSynthesisConfig)
        during == applyOverride(CxtRef.JsonInputSynthesisConfig, Voice.synthesisConfig)
        after == restoreConfig(Default, during)
    IN  IF ~inputIsSet(CxtRef)
        THEN [err |-> InvalidArgument, NNGraph |-> graphs, NNContext |-> contexts,
              synth |-> None, OutputType |-> None]
        ELSE [err |-> Success,
              NNGraph |-> [graphs EXCEPT ![CxtRef.GraphId].Voice =
                              Some([Voice EXCEPT !.synthesisConfig = after])],
              NNContext |-> [contexts EXCEPT ![ContextId].Output =
                                Some(synthesize(OutputType, AudioBuffer))],
              synth |-> Some(during), OutputType |-> Some(OutputType)]

----------------------------------------------------------------------------
(* getOutput                                                               *)

\* sizes are wider than TLC's integers: a size is its two halves, the
\* low one of 16 bits
SizeT(n) == [hi |-> n \div 65536, lo |-> n % 65536]
SizeLess(a, b) == a.hi < b.hi \/ (a.hi = b.hi /\ a.lo < b.lo)

\* std::numeric_limits<uint32_t>::max()
UINT32_MAX == [hi |-> 65535, lo |-> 65535]

\* the conversion of a size_t to uint32_t
ToUint32(a) == [hi |-> a.hi % 65536, lo |-> a.lo]

\* checks that take a context without output for one with an empty output
getOutputCheck_noOutputCheck(Index, HasOutput, Size, Capacity) ==
    IF Index /= 0 THEN InvalidArgument
    ELSE IF ~SizeLess(Size, UINT32_MAX) THEN InvalidArgument
    ELSE IF SizeLess(Capacity, Size) THEN InvalidArgument
    ELSE Success

\* checks that never compare the output with the caller's buffer
getOutputCheck_noCapacityCheck(Index, HasOutput, Size, Capacity) ==
    IF Index /= 0 THEN InvalidArgument
    ELSE IF ~HasOutput THEN InvalidArgument
    ELSE IF ~SizeLess(Size, UINT32_MAX) THEN InvalidArgument
    ELSE Success

\* checks that want a buffer larger than the output
getOutputCheck_strictCapacity(Index, HasOutput, Size, Capacity) ==
    IF Index /= 0 THEN InvalidArgument
    ELSE IF ~HasOutput THEN InvalidArgument
    ELSE IF ~SizeLess(Size, UINT32_MAX) THEN InvalidArgument
    ELSE IF ~SizeLess(Size, Capacity) THEN InvalidArgument
    ELSE Success

\* the checks of getOutput before the copy, on the sizes alone
getOutputCheck(Index, HasOutput, Size, Capacity) ==
    IF Index /= 0 THEN InvalidArgument
    ELSE IF ~HasOutput THEN InvalidArgument
    ELSE IF ~SizeLess(Size, UINT32_MAX) THEN InvalidArgument
    ELSE IF SizeLess(Capacity, Size) THEN InvalidArgument
    ELSE Success

\* std::memcpy of Src to the front of Dst, as far as Dst reaches
memcpy(Dst, Src) ==
    [i \in 1..Len(Dst) |-> IF i <= Len(Src) THEN Src[i] ELSE Dst[i]]

getOutput(contexts, ContextId, Index, OutBuffer, BytesWritten) ==
    LET Output == IF Index = 0 THEN contexts[ContextId].Output ELSE None
        Bytes == IF HasValue(Output) THEN Value(Output) ELSE <<>>
        Size == SizeT(Len(Bytes))
        err == getOutputCheck(Index, HasValue(Output), Size, SizeT(Len(OutBuffer)))
    IN  IF err /= Success
        THEN [err |-> err, OutBuffer |-> OutBuffer, BytesWritten |-> BytesWritten]
        ELSE [err |-> Success, OutBuffer |-> memcpy(OutBuffer, Bytes),
              BytesWritten |-> ToUint32(Size)]

----------------------------------------------------------------------------
(* The operations as steps of the host.  ret records the call of the step  *)
(* and what it returned.  hist is history only: per graph the synthesis    *)
(* config load left behind and whether a request has since run with a      *)
(* speaker override, and the contexts a setInput and a compute have        *)
(* succeeded on.                                                           *)

Init ==
    /\ NNGraph = <<>>
    /\ NNContext = <<>>
    /\ GraphIdOut = None
    /\ hist = [loaded |-> <<>>, inputSet |-> {}, computed |-> {}]
    /\ ret = [op |-> "none"]

\* what hist keeps of a graph that load has just made ready
Loaded(G) ==
    [Default |-> G.Config.DefaultSynthesisConfig,
     synthesisConfig |-> Value(G.Voice).synthesisConfig,
     speakerOverrideRan |-> FALSE]

Handles == Cardinality(DOMAIN NNGraph) + Cardinality(DOMAIN NNContext)

Load(BuilderChoices) ==
    /\ Handles < MaxHandles
    /\ \E Builders \in BuilderChoices :
          LET r == load(NNGraph, Builders, GraphIdOut)
          IN  /\ NNGraph' = r.NNGraph
              /\ GraphIdOut' = r.GraphId
              /\ hist' = IF r.err = Success
                         THEN [hist EXCEPT !.loaded =
                                 [id \in DOMAIN hist.loaded \cup {Value(r.GraphId)} |->
                                    IF id = Value(r.GraphId) THEN Loaded(r.NNGraph[id])
                                    ELSE hist.loaded[id]]]
                         ELSE hist
              /\ ret' = [op |-> "load", err |-> r.err, Builders |-> Builders,
                         allocated |-> r.allocated]
              /\ UNCHANGED NNContext

InitExecCtx ==
    /\ Handles < MaxHandles
    /\ \E GraphId \in DOMAIN NNGraph :
          LET r == initExecCtx(NNContext, GraphId)
          IN  /\ NNContext' = r.NNContext
              /\ ret' = [op |-> "initExecCtx", err |-> r.err, ContextId |-> r.ContextId]
              /\ UNCHANGED <<NNGraph, GraphIdOut, hist>>

SetInput(Calls) ==
    \E ContextId \in DOMAIN NNContext, call \in Calls :
        LET r == setInput(NNGraph, NNContext, ContextId, call.Index, call.Tensor)
        IN  /\ NNContext' = r.NNContext
            /\ hist' = IF r.err /= Success THEN hist
                       ELSE [hist EXCEPT !.inputSet = @ \cup {ContextId}]
            /\ ret' = [op |-> "setInput", err |-> r.err, ctx |-> ContextId,
                       Index |-> call.Index, Tensor |-> call.Tensor]
            /\ UNCHANGED <<NNGraph, GraphIdOut>>

Compute(AudioBuffers) ==
    \E ContextId \in DOMAIN NNContext, AudioBuffer \in AudioBuffers :
        LET r == compute(NNGraph, NNContext, ContextId, AudioBuffer)
            Override == NNContext[ContextId].JsonInputSynthesisConfig
            GraphId == NNContext[ContextId].GraphId
        IN  /\ NNGraph' = r.NNGraph
            /\ NNContext' = r.NNContext
            /\ hist' = IF r.err /= Success THEN hist
                       ELSE [hist EXCEPT
                               !.computed = @ \cup {ContextId},
                               !.loaded[GraphId].speakerOverrideRan =
                                   @ \/ (HasValue(Override)
                                         /\ HasValue(Value(Override).SpeakerId))]
            /\ ret' = [op |-> "compute", err |-> r.err, ctx |-> ContextId,
                       synth |-> r.synth, OutputType |-> r.OutputType]
            /\ UNCHANGED GraphIdOut

\* the caller's buffer holds 255 in every byte, and its count 255, before the call
FreshBuffer(Capacity) == [i \in 1..Capacity |-> 255]

GetOutput(Calls) ==
    \E ContextId \in DOMAIN NNContext, call \in Calls :
        LET r == getOutput(NNContext, ContextId, call.Index,
                           FreshBuffer(call.Capacity), SizeT(255))
        IN  /\ ret' = [op |-> "getOutput", err |-> r.err, ctx |-> ContextId,
                       Index |-> call.Index, Capacity |-> call.Capacity,
                       OutBuffer |-> r.OutBuffer, BytesWritten |-> r.BytesWritten]
            /\ UNCHANGED <<NNGraph, NNContext, GraphIdOut, hist>>

----------------------------------------------------------------------------
(* Spec: requests with and without overrides on graphs in JSON-input       *)
(* mode, one voice with a built-in phoneme-silence map and several         *)
(* speakers, one with neither.                                             *)

SpecBuilders ==
    {<<"{model:en,espeak_data,json_input}">>, <<"{model:text,json_input}">>}
SpecCalls ==
    {Call(0, Tensor1("{text:hi,speaker_id:1,noise_scale:7,...}")),
     Call(0, Tensor1("{text:hello}"))}
SpecAudio == {<<513>>}
SpecOutputs == {[Index |-> 0, Capacity |-> MaxCap]}

Next ==
    \/ Load(SpecBuilders)
    \/ InitExecCtx
    \/ SetInput(SpecCalls)
    \/ Compute(SpecAudio)
    \/ GetOutput(SpecOutputs)

Spec == Init /\ [][Next]_vars

----------------------------------------------------------------------------
(* Properties of Spec.                                                     *)

EngineConfig(g) == Value(NNGraph[g].Voice).synthesisConfig

\* the synthesis values of an engine config, the speaker aside
SynthesisValues(P) ==
    <<P.noiseScale, P.lengthScale, P.noiseW, P.sentenceSilenceSeconds,
      P.phonemeSilenceSeconds>>
DefaultValues(D) ==
    <<Value(D.NoiseScale), Value(D.LengthScale), Value(D.NoiseW),
      Value(D.SentenceSilenceSeconds), D.PhonemeSilenceSeconds>>

\* C1: between calls, so after every compute that returns, each graph's
\* engine noise scale, length scale, noise_w, sentence silence and
\* phoneme-silence map (or its absence) are the defaults load recorded for it.
C1_EngineRestored ==
    \A g \in DOMAIN NNGraph :
        SynthesisValues(EngineConfig(g)) = DefaultValues(hist.loaded[g].Default)

\* a compute has returned whose synthesis ran with values other than the
\* defaults, on a graph whose defaults have no phoneme-silence map
C1_Witness ==
    /\ ret.op = "compute" /\ ret.err = Success
    /\ LET g == NNContext[ret.ctx].GraphId
       IN  /\ SynthesisValues(Value(ret.synth)) /= DefaultValues(hist.loaded[g].Default)
           /\ HasValue(Value(ret.synth).phonemeSilenceSeconds)
           /\ ~HasValue(hist.loaded[g].Default.PhonemeSilenceSeconds)

OverrideSpeaker(ctx) ==
    IF HasValue(NNContext[ctx].JsonInputSynthesisConfig)
    THEN Value(NNContext[ctx].JsonInputSynthesisConfig).SpeakerId
    ELSE None

\* C2: once a request with a speaker_id override has been computed on a
\* graph, a compute for a request without a speaker override on that graph
\* synthesizes with the speaker the engine had when the graph was loaded.
C2_DefaultSpeakerAfterOverride ==
    (/\ ret.op = "compute" /\ ret.err = Success
     /\ ~HasValue(OverrideSpeaker(ret.ctx))
     /\ hist.loaded[NNContext[ret.ctx].GraphId].speakerOverrideRan)
    => Value(ret.synth).speakerId
          = hist.loaded[NNContext[ret.ctx].GraphId].synthesisConfig.speakerId

\* a request without override has been computed on one context after a
\* request with a speaker override on another context of the same graph
C2_Witness ==
    /\ ret.op = "compute" /\ ret.err = Success
    /\ ~HasValue(OverrideSpeaker(ret.ctx))
    /\ hist.loaded[NNContext[ret.ctx].GraphId].speakerOverrideRan
    /\ \E other \in DOMAIN NNContext :
          /\ other /= ret.ctx
          /\ NNContext[other].GraphId = NNContext[ret.ctx].GraphId
          /\ other \in hist.computed
          /\ OverrideSpeaker(other) = Some(1)
    /\ hist.loaded[NNContext[ret.ctx].GraphId].synthesisConfig.speakerId = Some(0)

\* C8: a compute on a context no setInput has succeeded on returns
\* InvalidArgument and changes neither a context (its output included) nor a
\* graph (its engine synthesis config included).
C8_ComputeWithoutInput ==
    [][(ret'.op = "compute" /\ ret'.ctx \notin hist.inputSet)
       => (/\ ret'.err = InvalidArgument
           /\ NNContext' = NNContext
           /\ NNGraph' = NNGraph)]_vars

\* such a compute has returned, on a graph in JSON-input mode
C8_Witness ==
    /\ ret.op = "compute" /\ ret.err = InvalidArgument
    /\ ret.ctx \notin hist.inputSet
    /\ NNGraph[NNContext[ret.ctx].GraphId].Config.JsonInput

----------------------------------------------------------------------------
(* SpecUpdate: updateSynthesisConfig on its own, over every pair of an      *)
(* engine and an incoming phoneme-silence map on two phonemes, with and    *)
(* without an incoming noise scale, in both force modes.                   *)

\* the maps from some of the phonemes 97 and 98 to 2 or 4 seconds, and "no map"
PhonemeMaps ==
    UNION {[dom -> {2, 4}] : dom \in SUBSET {97, 98}}
OptionalMaps == {None} \cup {Some(m) : m \in PhonemeMaps}

UpdateInputs ==
    [SC : {[EmptySynthesisConfig EXCEPT !.NoiseScale = n, !.PhonemeSilenceSeconds = m] :
              n \in {None, Some(4)}, m \in OptionalMaps},
     Piper : {[speakerId |-> None, noiseScale |-> 2, lengthScale |-> 2, noiseW |-> 2,
               sentenceSilenceSeconds |-> 2, phonemeSilenceSeconds |-> m] :
                 m \in OptionalMaps},
     Force : BOOLEAN]

InitUpdate ==
    /\ NNGraph = <<>>
    /\ NNContext = <<>>
    /\ GraphIdOut = None
    /\ hist = [loaded |-> <<>>, inputSet |-> {}, computed |-> {}]
    /\ \E in \in UpdateInputs :
          ret = [op |-> "updateSynthesisConfig", in |-> in, out |-> None]

Update ==
    /\ ret.op = "updateSynthesisConfig"
    /\ ret.out = None
    /\ ret' = [ret EXCEPT !.out = Some(updateSynthesisConfig(ret.in.SC, ret.in.Piper,
                                                              ret.in.Force))]
    /\ UNCHANGED <<NNGraph, NNContext, GraphIdOut, hist>>

SpecUpdate == InitUpdate /\ [][Update]_vars

\* C3: the phoneme-silence map updateSynthesisConfig leaves in the engine.
\* Forced: exactly the incoming map, or none when there is none.  Not forced:
\* the engine's map when nothing comes in, the incoming map when the engine
\* has none, and otherwise every engine entry as it was plus the incoming
\* entries for the phonemes the engine had no entry for.
C3_PhonemeSilenceUpdate ==
    (ret.op = "updateSynthesisConfig" /\ HasValue(ret.out)) =>
        LET E == ret.in.Piper.phonemeSilenceSeconds
            I == ret.in.SC.PhonemeSilenceSeconds
            R == Value(ret.out).phonemeSilenceSeconds
        IN  /\ ret.in.Force => R = I
            /\ (~ret.in.Force /\ ~HasValue(I)) => R = E
            /\ (~ret.in.Force /\ ~HasValue(E)) => R = I
            /\ (~ret.in.Force /\ HasValue(E) /\ HasValue(I)) =>
                  /\ HasValue(R)
                  /\ DOMAIN Value(R) = DOMAIN Value(E) \cup DOMAIN Value(I)
                  /\ \A x \in DOMAIN Value(E) : Value(R)[x] = Value(E)[x]
                  /\ \A x \in DOMAIN Value(I) \ DOMAIN Value(E) :
                        Value(R)[x] = Value(I)[x]

\* the merge of an incoming map on both phonemes into an engine map that has
\* other seconds for one of them
C3_Witness ==
    /\ ret.op = "updateSynthesisConfig" /\ HasValue(ret.out)
    /\ ~ret.in.Force
    /\ ret.in.Piper.phonemeSilenceSeconds = Some(97 :> 2)
    /\ ret.in.SC.PhonemeSilenceSeconds = Some(97 :> 4 @@ 98 :> 4)
    /\ Value(ret.out).phonemeSilenceSeconds = Some(97 :> 2 @@ 98 :> 4)

----------------------------------------------------------------------------
(* SpecSetInput: every way setInput fails, between requests that succeed,  *)
(* on a graph in JSON-input mode.                                          *)

SetInputBuilders == {<<"{model:en,espeak_data,json_input}">>}
GoodCalls ==
    {Call(0, Tensor1("{text:hello}")),
     Call(0, Tensor1("{text:hi,speaker_id:1,noise_scale:7,...}"))}
BadIndexCalls == {Call(1, Tensor1("{text:hello}"))}
BadDimensionCalls ==
    {Call(0, TensorData(<<2>>, "{text:hello}")),
     Call(0, TensorData(<<1, 1>>, "{text:hello}"))}
\* malformed JSON, a root that is no object, no text, a text that is no
\* string, override fields of the wrong type, a speaker that is no string
BadJsonCalls ==
    {Call(0, Tensor1(t)) :
        t \in {"hello", "[]", "{speaker_id:1}", "{text:5}", "{text:bye,noise_scale:loud}",
               "{text:bye,speaker_id:one}", "{text:bye,phoneme_silence:{ab:1}}",
               "{text:bye,speaker:5}"}}
SetInputCalls == GoodCalls \cup BadIndexCalls \cup BadDimensionCalls \cup BadJsonCalls

NextSetInput ==
    \/ Load(SetInputBuilders)
    \/ InitExecCtx
    \/ SetInput(SetInputCalls)

SpecSetInput == Init /\ [][NextSetInput]_vars

\* the input a context holds: its line and its override
StoredInput(contexts, ctx) ==
    <<contexts[ctx].Line, contexts[ctx].JsonInputSynthesisConfig>>

JsonMode(ctx) == NNGraph[NNContext[ctx].GraphId].Config.JsonInput

\* C4: each of the listed calls fails, a setInput that fails leaves every
\* context's line and override as they were, and a line or an override
\* changes only in a setInput on that context that succeeds, which in
\* JSON-input mode leaves the context with both.
C4_FailedSetInputKeepsInput ==
    [][/\ (ret'.op = "setInput"
           /\ [Index |-> ret'.Index, Tensor |-> ret'.Tensor]
                 \in BadIndexCalls \cup BadDimensionCalls
                     \cup (IF JsonMode(ret'.ctx) THEN BadJsonCalls ELSE {}))
          => ret'.err /= Success
       /\ (ret'.op = "setInput" /\ ret'.err /= Success) => NNContext' = NNContext
       /\ \A ctx \in DOMAIN NNContext :
             StoredInput(NNContext', ctx) /= StoredInput(NNContext, ctx)
             => /\ ret'.op = "setInput" /\ ret'.ctx = ctx /\ ret'.err = Success
                /\ JsonMode(ctx) =>
                      /\ HasValue(NNContext'[ctx].Line)
                      /\ HasValue(NNContext'[ctx].JsonInputSynthesisConfig)]_vars

\* a request whose speaker is no string has been refused on a context that
\* holds the line and the override of an earlier request
C4_Witness ==
    /\ ret.op = "setInput" /\ ret.err = InvalidArgument
    /\ ret.Tensor = Tensor1("{text:bye,speaker:5}") /\ ret.Index = 0
    /\ NNContext[ret.ctx].Line = Some("hi")
    /\ HasValue(NNContext[ret.ctx].JsonInputSynthesisConfig)
    /\ Value(NNContext[ret.ctx].JsonInputSynthesisConfig).SpeakerId = Some(1)

----------------------------------------------------------------------------
(* SpecSpeaker: requests that name their speaker, on a voice with a        *)
(* speaker table and on a voice without one.                               *)

SpeakerBuilders ==
    {<<"{model:en,espeak_data,json_input}">>, <<"{model:text,json_input}">>}
SpeakerCalls ==
    {Call(0, Tensor1(t)) :
        t \in {"{text:hi,speaker:nobody}", "{text:hi,speaker:alice}",
               "{text:hello,speaker_id:0,speaker:alice}",
               "{text:hello,speaker_id:1,speaker:5}"}}

NextSpeaker ==
    \/ Load(SpeakerBuilders)
    \/ InitExecCtx
    \/ SetInput(SpeakerCalls)

SpecSpeaker == Init /\ [][NextSpeaker]_vars

\* the voice of the graph a context belongs to has an id for the name
KnownSpeaker(ctx, name) ==
    LET map == Value(NNGraph[NNContext[ctx].GraphId].Voice).speakerIdMap
    IN  HasValue(map) /\ name \in DOMAIN Value(map)

\* C10: in JSON-input mode a setInput of an object with a text and, for its
\* speaker, a name the voice has no id for (or has no table to look it up in)
\* returns Success and stores the text and an override without speaker id;
\* and with a speaker_id in the object it stores that id whatever the speaker
\* field holds, be it a name with another id or no string at all.
C10_UnknownSpeakerName ==
    (ret.op = "setInput" /\ ret.Index = 0 /\ ret.Tensor.Dimension = <<1>>
     /\ JsonMode(ret.ctx) /\ Parse(ret.Tensor.Tensor).root = "object") =>
        LET Object == Parse(ret.Tensor.Tensor).f
            Stored == NNContext[ret.ctx]
        IN  /\ (/\ Object["text"].k = "string"
                /\ Object["speaker_id"].k = "absent"
                /\ Object["speaker"].k = "string"
                /\ ~KnownSpeaker(ret.ctx, Object["speaker"].s))
               => /\ ret.err = Success
                  /\ Stored.Line = Some(Object["text"].s)
                  /\ HasValue(Stored.JsonInputSynthesisConfig)
                  /\ Value(Stored.JsonInputSynthesisConfig).SpeakerId = None
            /\ (/\ Object["text"].k = "string"
                /\ Object["speaker_id"].k = "int"
                /\ Object["speaker"].k /= "absent")
               => /\ ret.err = Success
                  /\ Stored.Line = Some(Object["text"].s)
                  /\ HasValue(Stored.JsonInputSynthesisConfig)
                  /\ Value(Stored.JsonInputSynthesisConfig).SpeakerId
                        = Some(Object["speaker_id"].n)

\* a request naming a speaker the voice's table does not hold has been
\* stored, on a voice that has a table
C10_Witness ==
    /\ ret.op = "setInput" /\ ret.err = Success
    /\ ret.Tensor = Tensor1("{text:hi,speaker:nobody}")
    /\ HasValue(Value(NNGraph[NNContext[ret.ctx].GraphId].Voice).speakerIdMap)
    /\ NNContext[ret.ctx].Line = Some("hi")
    /\ NNContext[ret.ctx].JsonInputSynthesisConfig = Some(EmptySynthesisConfig)

----------------------------------------------------------------------------
(* SpecOutput: getOutput with every capacity up to MaxCap, before and      *)
(* after computes that produce one byte and three, between setInput calls  *)
(* that succeed and that fail, on a graph that takes plain text.           *)

OutputBuilders == {<<"{model:text}">>}
OutputInputs ==
    {Call(0, Tensor1("hello")), Call(1, Tensor1("hello")),
     Call(0, TensorData(<<2>>, "hello"))}
OutputAudio == {<<>>, <<513>>}
OutputCalls ==
    {[Index |-> 0, Capacity |-> c] : c \in 0..MaxCap}
        \cup {[Index |-> 1, Capacity |-> MaxCap]}

NextOutput ==
    \/ Load(OutputBuilders)
    \/ InitExecCtx
    \/ SetInput(OutputInputs)
    \/ Compute(OutputAudio)
    \/ GetOutput(OutputCalls)

SpecOutput == Init /\ [][NextOutput]_vars

\* C5: a getOutput on a context no compute has succeeded on returns
\* InvalidArgument, whatever its capacity and whichever setInput and compute
\* calls came before it.
C5_GetOutputBeforeCompute ==
    (ret.op = "getOutput" /\ ret.ctx \notin hist.computed)
    => ret.err = InvalidArgument

\* such a getOutput has returned, with the largest buffer, on a context that
\* has its input, while another context of the graph has an output
C5_Witness ==
    /\ ret.op = "getOutput" /\ ret.err = InvalidArgument
    /\ ret.Index = 0 /\ ret.Capacity = MaxCap
    /\ ret.ctx \in hist.inputSet \ hist.computed
    /\ \E other \in hist.computed :
          NNContext[other].GraphId = NNContext[ret.ctx].GraphId

\* C6: a getOutput with index 0 for an output larger than the buffer returns
\* InvalidArgument and leaves the buffer and the byte count as the caller
\* passed them; a getOutput that returns Success has copied all N bytes of
\* the output to the front of the buffer and reports N.
C6_GetOutputCapacity ==
    (ret.op = "getOutput" /\ ret.Index = 0
     /\ HasValue(NNContext[ret.ctx].Output)) =>
        LET Output == Value(NNContext[ret.ctx].Output)
            N == Len(Output)
        IN  /\ N > ret.Capacity
               => /\ ret.err = InvalidArgument
                  /\ ret.OutBuffer = FreshBuffer(ret.Capacity)
                  /\ ret.BytesWritten = SizeT(255)
            /\ ret.err = Success
               => /\ N <= ret.Capacity
                  /\ SubSeq(ret.OutBuffer, 1, N) = Output
                  /\ ret.BytesWritten = SizeT(N)

\* an output of three bytes has been refused a buffer of two
C6_Witness ==
    /\ ret.op = "getOutput" /\ ret.err = InvalidArgument
    /\ ret.Index = 0 /\ ret.Capacity = 2
    /\ NNContext[ret.ctx].Output = Some(<<82, 1, 2>>)
    /\ ret.OutBuffer = <<255, 255>>

\* C9: a context that has an output keeps having one, and has one once a
\* compute on it has succeeded; from then on a getOutput with index 0 and a
\* buffer of at least the output's size succeeds, whichever setInput and
\* compute calls came in between; and the output of a context changes only
\* in a compute on that context that succeeds.
C9_OutputLifecycle ==
    [][/\ \A ctx \in DOMAIN NNContext :
             HasValue(NNContext[ctx].Output) => HasValue(NNContext'[ctx].Output)
       /\ \A ctx \in hist'.computed : HasValue(NNContext'[ctx].Output)
       /\ (/\ ret'.op = "getOutput" /\ ret'.Index = 0
           /\ ret'.ctx \in hist.computed
           /\ ret'.Capacity >= Len(Value(NNContext[ret'.ctx].Output)))
          => ret'.err = Success
       /\ \A ctx \in DOMAIN NNContext :
             NNContext'[ctx].Output /= NNContext[ctx].Output
             => ret'.op = "compute" /\ ret'.ctx = ctx /\ ret'.err = Success]_vars

\* a setInput has failed on a context that has an output, and has left it
C9_Witness ==
    /\ ret.op = "setInput" /\ ret.err = InvalidArgument
    /\ ret.ctx \in hist.computed
    /\ NNContext[ret.ctx].Output = Some(<<82, 1, 2>>)

----------------------------------------------------------------------------
(* SpecLoad: loads that succeed, for each kind of voice, and loads that    *)
(* fail at each step of load, into a table that fills up.                  *)

GoodBuilders ==
    {<<"{model:text}">>, <<"{model:en,espeak_data,json_input}">>,
     <<"{model:ar,espeak_data,tashkeel_model}">>, <<"{model:bare,config:alt}">>}
\* no builder and two
BadCountBuilders == {<<>>, <<"{model:text}", "{model:text}">>}
\* run configs parseRunConfig refuses
BadConfigBuilders ==
    {<<"not json">>, <<"{}">>, <<"{model:missing}">>, <<"{model:text,output_type:mp3}">>}
\* voices that want eSpeak data or a tashkeel model they do not get
BadESpeakBuilders == {<<"{model:en,json_input}">>, <<"{model:en,espeak_data:missing}">>}
BadTashkeelBuilders ==
    {<<"{model:ar,espeak_data}">>, <<"{model:ar,espeak_data,tashkeel_model:missing}">>}
LoadBuilders ==
    GoodBuilders \cup BadCountBuilders \cup BadConfigBuilders
        \cup BadESpeakBuilders \cup BadTashkeelBuilders

NextLoad == Load(LoadBuilders)

SpecLoad == Init /\ [][NextLoad]_vars

\* C7: a load that fails leaves the graph table and the caller's GraphId as
\* they were, whether it fails on the run config, on the eSpeak data or on
\* the tashkeel model, and so marks no graph ready; a load with no builder or
\* with two fails with InvalidArgument and allocates no graph; a load that
\* succeeds adds one graph, marked ready, and gives the caller its id.
C7_FailedLoadKeepsTable ==
    [][ret'.op = "load" =>
          /\ ret'.Builders \in BadConfigBuilders \cup BadESpeakBuilders
                                  \cup BadTashkeelBuilders
             => ret'.err /= Success /\ ret'.allocated
          /\ ret'.err /= Success
             => NNGraph' = NNGraph /\ GraphIdOut' = GraphIdOut
          /\ Len(ret'.Builders) /= 1
             => ret'.err = InvalidArgument /\ ~ret'.allocated
          /\ ret'.err = Success
             => /\ HasValue(GraphIdOut')
                /\ DOMAIN NNGraph' = DOMAIN NNGraph \cup {Value(GraphIdOut')}
                /\ Value(GraphIdOut') \notin DOMAIN NNGraph
                /\ NNGraph'[Value(GraphIdOut')].ready
                /\ \A id \in DOMAIN NNGraph : NNGraph'[id] = NNGraph[id]
          /\ \A id \in DOMAIN NNGraph' : NNGraph'[id].ready]_vars

\* a load has failed for its tashkeel model after two loads that succeeded
C7_Witness ==
    /\ ret.op = "load" /\ ret.err = InvalidArgument /\ ret.allocated
    /\ ret.Builders = <<"{model:ar,espeak_data,tashkeel_model:missing}">>
    /\ DOMAIN NNGraph = {0, 1}
    /\ GraphIdOut = Some(1)

----------------------------------------------------------------------------
(* SpecOutputType: graph-load documents and requests that name an output   *)
(* type, known and unknown.                                                *)

OutputTypeBuilders ==
    {<<"{model:en,espeak_data,json_input}">>, <<"{model:text,output_type:mp3}">>,
     <<"{model:text,json_input,output_type:mp3}">>,
     <<"{model:text,json_input,output_type:raw,noise_scale:5,...}">>}
OutputTypeCalls ==
    {Call(0, Tensor1(t)) :
        t \in {"{text:hi,speaker_id:1,noise_scale:7,...}", "{text:hello,output_type:raw}",
               "{text:hello,output_type:wav}", "{text:bye,output_type:mp3}"}}

NextOutputType ==
    \/ Load(OutputTypeBuilders)
    \/ InitExecCtx
    \/ SetInput(OutputTypeCalls)

SpecOutputType == Init /\ [][NextOutputType]_vars

\* the JSON object in the text names an output type that is neither wav nor raw
UnknownOutputType(String) ==
    /\ Parse(String).root = "object"
    /\ Parse(String).f["output_type"].k = "string"
    /\ Parse(String).f["output_type"].s \notin {"wav", "raw"}

\* C11: a load whose run config names an output type other than wav and raw
\* returns InvalidArgument and leaves the graph table and the caller's
\* GraphId as they were; a setInput of such a request in JSON-input mode
\* returns InvalidArgument and leaves every context as it was.
C11_UnknownOutputType ==
    [][/\ (ret'.op = "load" /\ Len(ret'.Builders) = 1
           /\ UnknownOutputType(ret'.Builders[1]))
          => /\ ret'.err = InvalidArgument
             /\ NNGraph' = NNGraph
             /\ GraphIdOut' = GraphIdOut
       /\ (ret'.op = "setInput" /\ ret'.Index = 0
           /\ ret'.Tensor.Dimension = <<1>> /\ JsonMode(ret'.ctx)
           /\ UnknownOutputType(ret'.Tensor.Tensor))
          => /\ ret'.err = InvalidArgument
             /\ NNContext' = NNContext]_vars

\* a request for mp3 has been refused on a context that holds the line and
\* the override of an earlier request
C11_Witness ==
    /\ ret.op = "setInput" /\ ret.err = InvalidArgument
    /\ ret.Tensor = Tensor1("{text:bye,output_type:mp3}")
    /\ NNContext[ret.ctx].Line = Some("hi")
    /\ HasValue(NNContext[ret.ctx].JsonInputSynthesisConfig)
    /\ Value(NNContext[ret.ctx].JsonInputSynthesisConfig).SpeakerId = Some(1)

----------------------------------------------------------------------------
(* SpecRunConfig: parseRunConfig on its own, over the run configs made of  *)
(* a model, a config, a json_input and an espeak_data field, each absent,  *)
(* well typed or of another type, and over roots that are no object.       *)

RunConfigModels ==
    {JAbsent, JInt(5), JStr("text.onnx"), JStr("bare.onnx"), JStr("missing.onnx")}
RunConfigConfigs == {JAbsent, JInt(5), JStr("alt.json"), JStr("missing.json")}
RunConfigJsonInputs ==
    {JAbsent, JBool(TRUE), JBool(FALSE), JStr("true"), JInt(1), JNull}
RunConfigPaths == {JAbsent, JStr("espeak-ng-data"), JInt(5)}

RunConfigInputs ==
    {Doc([model |-> m, config |-> c, json_input |-> j, espeak_data |-> e]) :
        m \in RunConfigModels, c \in RunConfigConfigs, j \in RunConfigJsonInputs,
        e \in RunConfigPaths}
        \cup {Malformed, NonObject}

InitRunConfig ==
    /\ NNGraph = <<>>
    /\ NNContext = <<>>
    /\ GraphIdOut = None
    /\ hist = [loaded |-> <<>>, inputSet |-> {}, computed |-> {}]
    /\ \E in \in RunConfigInputs :
          ret = [op |-> "parseRunConfig", in |-> in, out |-> None]

ParseRunConfig ==
    /\ ret.op = "parseRunConfig"
    /\ ret.out = None
    /\ ret' = [ret EXCEPT !.out = Some(parseRunConfigDoc(NewRunConfig, ret.in))]
    /\ UNCHANGED <<NNGraph, NNContext, GraphIdOut, hist>>

SpecRunConfig == InitRunConfig /\ [][ParseRunConfig]_vars

\* the fields of a run config behind the model and the config are fine
RestIsFine(Object) ==
    /\ Object["json_input"].k \in {"absent", "bool"}
    /\ Object["espeak_data"].k \in {"absent", "string"}

\* C12: on an object with a model file that exists and no config field the
\* companion config is the model path with ".json" appended, and the parse
\* succeeds only if that file exists; a config field gives the path instead,
\* which must exist too; without a model field, or with a model or a
\* companion file that does not exist, the parse returns InvalidArgument;
\* and it succeeds when both files exist and the other fields are fine.
C12_CompanionConfigPath ==
    (ret.op = "parseRunConfig" /\ HasValue(ret.out) /\ ret.in.root = "object") =>
        LET Object == ret.in.f
            model == Object["model"]
            config == Object["config"]
            Res == Value(ret.out)
            HasModel == model.k = "string" /\ exists(model.s)
        IN  /\ (HasModel /\ config.k = "absent")
               => /\ Res.cfg.ModelConfigPath = model.s \o ".json"
                  /\ ~exists(model.s \o ".json") => Res.err = InvalidArgument
            /\ (HasModel /\ config.k = "string")
               => /\ Res.cfg.ModelConfigPath = config.s
                  /\ ~exists(config.s) => Res.err = InvalidArgument
            /\ (model.k = "absent" \/ (model.k = "string" /\ ~exists(model.s)))
               => Res.err = InvalidArgument
            /\ Res.err = Success
               => /\ HasModel /\ Res.cfg.ModelPath = model.s
                  /\ exists(Res.cfg.ModelConfigPath)
            /\ (HasModel /\ config.k \in {"absent", "string"}
                /\ exists(Res.cfg.ModelConfigPath) /\ RestIsFine(Object))
               => Res.err = Success

\* a model without a config field has been given its companion, which exists
C12_Witness ==
    /\ ret.op = "parseRunConfig" /\ HasValue(ret.out)
    /\ ret.in.root = "object"
    /\ ret.in.f["model"] = JStr("text.onnx") /\ ret.in.f["config"] = JAbsent
    /\ Value(ret.out).err = Success
    /\ Value(ret.out).cfg.ModelConfigPath = "text.onnx.json"

----------------------------------------------------------------------------
(* SpecPhoneme: parseSynthesisConfig on its own, over the phoneme_silence  *)
(* objects of up to MaxMembers members, their keys of no, one and two      *)
(* codepoints and their values numbers and not, for both parse sites.      *)

PhonemeKeys == {<<>>, <<97>>, <<98>>, <<97, 98>>}
PhonemeValues == {JDbl(4), JInt(3), JStr("long"), JNull}
PhonemeMembers == {Member(key, val) : key \in PhonemeKeys, val \in PhonemeValues}
PhonemeObjects ==
    UNION {[1..n -> PhonemeMembers] : n \in 0..MaxMembers}

PhonemeInputs ==
    [Object : {Doc([phoneme_silence |-> JObj(members)]).f : members \in PhonemeObjects}
                 \cup {Doc(<<>>).f, Doc([phoneme_silence |-> JInt(1)]).f},
     JsonInput : BOOLEAN]

InitPhoneme ==
    /\ NNGraph = <<>>
    /\ NNContext = <<>>
    /\ GraphIdOut = None
    /\ hist = [loaded |-> <<>>, inputSet |-> {}, computed |-> {}]
    /\ \E in \in PhonemeInputs :
          ret = [op |-> "parseSynthesisConfig", in |-> in, out |-> None]

ParseSynthesisConfig ==
    /\ ret.op = "parseSynthesisConfig"
    /\ ret.out = None
    /\ ret' = [ret EXCEPT !.out = Some(parseSynthesisConfig(EmptySynthesisConfig,
                                                             ret.in.Object,
                                                             ret.in.JsonInput))]
    /\ UNCHANGED <<NNGraph, NNContext, GraphIdOut, hist>>

SpecPhoneme == InitPhoneme /\ [][ParseSynthesisConfig]_vars

\* a member the parser refuses: its key is not one codepoint or its value is
\* no number
BadMember(m) == Len(m.key) /= 1 \/ m.val.k \notin {"int", "double"}

\* C13: parseSynthesisConfig returns InvalidArgument for every
\* phoneme_silence object with a member whose key is empty or of several
\* codepoints or whose value is no number; an empty object leaves the
\* config's map unset; and an object of good members only gives the map of
\* its members, the later of two members for one phoneme.
C13_PhonemeSilenceParse ==
    (ret.op = "parseSynthesisConfig" /\ HasValue(ret.out)
     /\ ret.in.Object["phoneme_silence"].k = "object") =>
        LET members == ret.in.Object["phoneme_silence"].o
            Res == Value(ret.out)
            Map == Res.cfg.PhonemeSilenceSeconds
            Last(x) == CHOOSE i \in 1..Len(members) :
                          /\ members[i].key = <<x>>
                          /\ \A j \in (i + 1)..Len(members) : members[j].key /= <<x>>
        IN  /\ (\E i \in 1..Len(members) : BadMember(members[i]))
               => Res.err = InvalidArgument
            /\ members = <<>> => (Res.err = Success /\ Map = None)
            /\ (members /= <<>> /\ \A i \in 1..Len(members) : ~BadMember(members[i]))
               => /\ Res.err = Success
                  /\ HasValue(Map)
                  /\ DOMAIN Value(Map) = {members[i].key[1] : i \in 1..Len(members)}
                  /\ \A x \in DOMAIN Value(Map) :
                        Value(Map)[x] = ToFloat(members[Last(x)].val.n)

\* an object has been refused for the key of its second member
C13_Witness ==
    /\ ret.op = "parseSynthesisConfig" /\ HasValue(ret.out)
    /\ ret.in.Object["phoneme_silence"]
          = JObj(<<Member(<<97>>, JDbl(4)), Member(<<97, 98>>, JDbl(4))>>)
    /\ Value(ret.out).err = InvalidArgument

----------------------------------------------------------------------------
(* Further properties of Spec.                                             *)

\* the scalar fields of an engine config
EngineScalars(P) ==
    <<P.speakerId, P.noiseScale, P.lengthScale, P.noiseW, P.sentenceSilenceSeconds>>

\* the scalar fields of engine config P with every scalar the sparse config
\* SC has written over them
ScalarsApplied(SC, P) ==
    <<IF HasValue(SC.SpeakerId) THEN SC.SpeakerId ELSE P.speakerId,
      IF HasValue(SC.NoiseScale) THEN Value(SC.NoiseScale) ELSE P.noiseScale,
      IF HasValue(SC.LengthScale) THEN Value(SC.LengthScale) ELSE P.lengthScale,
      IF HasValue(SC.NoiseW) THEN Value(SC.NoiseW) ELSE P.noiseW,
      IF HasValue(SC.SentenceSilenceSeconds)
      THEN Value(SC.SentenceSilenceSeconds) ELSE P.sentenceSilenceSeconds>>

\* C14: in a compute the engine config of the synthesis has every scalar the
\* request's override sets (speaker id, noise scale, length scale, noise_w,
\* sentence silence) written over the engine's value and the engine's value
\* for the rest, so a speaker_id of the request is in effect while its
\* synthesis runs; and the restore after it writes the scalars of the
\* graph's defaults in the same way.
C14_ScalarsApplied ==
    [][(ret'.op = "compute" /\ ret'.err = Success) =>
          LET ctx == ret'.ctx
              g == NNContext[ctx].GraphId
              Override == NNContext[ctx].JsonInputSynthesisConfig
              O == IF HasValue(Override) THEN Value(Override) ELSE EmptySynthesisConfig
              D == NNGraph[g].Config.DefaultSynthesisConfig
              Before == Value(NNGraph[g].Voice).synthesisConfig
              During == Value(ret'.synth)
              After == Value(NNGraph'[g].Voice).synthesisConfig
          IN  /\ EngineScalars(During) = ScalarsApplied(O, Before)
              /\ EngineScalars(After) = ScalarsApplied(D, During)]_vars

----------------------------------------------------------------------------
(* SpecDefaults: loads whose run configs give synthesis values and         *)
(* phoneme silences, for a voice with a built-in silence and one without.  *)

DefaultsBuilders ==
    {<<"{model:en,espeak_data,json_input}">>,
     <<"{model:en,espeak_data,noise_scale:5,phoneme_silence:{a:4,b:4}}">>,
     <<"{model:text,json_input,output_type:raw,noise_scale:5,...}">>,
     <<"{model:text}">>}

NextDefaults ==
    \/ Load(DefaultsBuilders)
    \/ InitExecCtx

SpecDefaults == Init /\ [][NextDefaults]_vars

\* the float the caller gave for Key, the built-in value without one
CallerOr(Object, Key, BuiltIn) ==
    IF Object[Key].k \in {"int", "double"} THEN ToFloat(Object[Key].n) ELSE BuiltIn

\* the silences the caller gave, by phoneme
CallerSilence(Object) ==
    LET members == Object["phoneme_silence"].o
    IN  [p \in {members[i].key[1] : i \in 1..Len(members)} |->
            ToFloat(members[CHOOSE i \in 1..Len(members) : members[i].key = <<p>>].val.n)]

\* after the load that has just returned, the recorded defaults and the
\* engine hold, for each scalar, the caller's value or else the built-in one
ScalarDefaultsSynced(G, Object, BuiltIn) ==
    LET D == G.Config.DefaultSynthesisConfig
        E == Value(G.Voice).synthesisConfig
    IN  /\ D.NoiseScale = Some(E.noiseScale)
        /\ D.LengthScale = Some(E.lengthScale)
        /\ D.NoiseW = Some(E.noiseW)
        /\ D.SentenceSilenceSeconds = Some(E.sentenceSilenceSeconds)
        /\ D.PhonemeSilenceSeconds = E.phonemeSilenceSeconds
        /\ E.noiseScale = CallerOr(Object, "noise_scale", BuiltIn.noiseScale)
        /\ E.lengthScale = CallerOr(Object, "length_scale", BuiltIn.lengthScale)
        /\ E.noiseW = CallerOr(Object, "noise_w", BuiltIn.noiseW)
        /\ E.sentenceSilenceSeconds
              = CallerOr(Object, "sentence_silence", BuiltIn.sentenceSilenceSeconds)

\* the phonemes of an optional map
Phonemes(Map) == IF HasValue(Map) THEN DOMAIN Value(Map) ELSE {}

\* the silences after load are those of First and, for the other phonemes,
\* those of Second
SilenceIs(G, First, Second) ==
    LET E == Value(G.Voice).synthesisConfig.phonemeSilenceSeconds
    IN  /\ Phonemes(E) = Phonemes(First) \cup Phonemes(Second)
        /\ \A p \in Phonemes(First) : Value(E)[p] = Value(First)[p]
        /\ \A p \in Phonemes(Second) \ Phonemes(First) : Value(E)[p] = Value(Second)[p]

\* the silences of the caller as an optional map
CallerMap(Object) ==
    IF Object["phoneme_silence"].k = "object" /\ Object["phoneme_silence"].o /= <<>>
    THEN Some(CallerSilence(Object)) ELSE None

\* C15 as stated: a load that succeeds leaves the recorded defaults and the
\* engine config agreeing in every synthesis field, on the caller's value
\* where the run config gave one and on the voice's built-in value
\* otherwise, a silence the caller gave for a phoneme the voice has a
\* built-in silence for included.
C15_CallerValuesWin ==
    [][(ret'.op = "load" /\ ret'.err = Success) =>
          LET G == NNGraph'[Value(GraphIdOut')]
              Object == Parse(ret'.Builders[1]).f
              BuiltIn == VoiceFile(G.Config.ModelConfigPath)
          IN  /\ ScalarDefaultsSynced(G, Object, BuiltIn)
              /\ SilenceIs(G, CallerMap(Object), BuiltIn.phonemeSilenceSeconds)]_vars

\* C15, amended: as above for the scalars; of the silences the built-in ones
\* stay, and the caller's are added only for the phonemes the voice has no
\* built-in silence for.
C15_BuiltInSilenceWins ==
    [][(ret'.op = "load" /\ ret'.err = Success) =>
          LET G == NNGraph'[Value(GraphIdOut')]
              Object == Parse(ret'.Builders[1]).f
              BuiltIn == VoiceFile(G.Config.ModelConfigPath)
          IN  /\ ScalarDefaultsSynced(G, Object, BuiltIn)
              /\ SilenceIs(G, BuiltIn.phonemeSilenceSeconds, CallerMap(Object))]_vars

\* a load has succeeded whose run config gives silences for a and b, on the
\* voice with a built-in silence for a
C15_Witness ==
    /\ ret.op = "load" /\ ret.err = Success
    /\ ret.Builders = <<"{model:en,espeak_data,noise_scale:5,phoneme_silence:{a:4,b:4}}">>
    /\ LET G == NNGraph[Value(GraphIdOut)]
       IN  /\ Value(G.Voice).synthesisConfig.phonemeSilenceSeconds
                 = Some(97 :> 2 @@ 98 :> 4)
           /\ G.Config.DefaultSynthesisConfig.PhonemeSilenceSeconds
                 = Some(97 :> 2 @@ 98 :> 4)
           /\ G.Config.DefaultSynthesisConfig.NoiseScale = Some(4)


\* the phoneme-silence map of a synthesis whose override has map O on a
\* graph whose defaults have map D: O if D has none, D if O has none, and
\* otherwise D's entries plus those of O for the phonemes D has none for
SilenceDuring(O, D, E) ==
    /\ ~HasValue(D) => E = O
    /\ ~HasValue(O) => E = D
    /\ (HasValue(D) /\ HasValue(O))
       => /\ HasValue(E)
          /\ DOMAIN Value(E) = DOMAIN Value(D) \cup DOMAIN Value(O)
          /\ \A p \in DOMAIN Value(D) : Value(E)[p] = Value(D)[p]
          /\ \A p \in DOMAIN Value(O) \ DOMAIN Value(D) : Value(E)[p] = Value(O)[p]

\* the four float scalars of a synthesis with override O on defaults D
FloatsDuring(O, D, E) ==
    /\ E.noiseScale = Value(IF HasValue(O.NoiseScale) THEN O.NoiseScale ELSE D.NoiseScale)
    /\ E.lengthScale
          = Value(IF HasValue(O.LengthScale) THEN O.LengthScale ELSE D.LengthScale)
    /\ E.noiseW = Value(IF HasValue(O.NoiseW) THEN O.NoiseW ELSE D.NoiseW)
    /\ E.sentenceSilenceSeconds
          = Value(IF HasValue(O.SentenceSilenceSeconds)
                  THEN O.SentenceSilenceSeconds ELSE D.SentenceSilenceSeconds)

\* C16: the synthesis of a compute whose context carries override O, on a
\* graph with recorded defaults D, runs with O's value for each scalar O sets
\* (the speaker id among them) and the graph's default for the rest, and
\* with O's phoneme-silence map if D has none, D's if O has none, and
\* otherwise D's entries plus O's entries for the phonemes not in D.
C16_OverrideDuringSynthesis ==
    [][(ret'.op = "compute" /\ ret'.err = Success
        /\ HasValue(NNContext[ret'.ctx].JsonInputSynthesisConfig)) =>
          LET g == NNContext[ret'.ctx].GraphId
              O == Value(NNContext[ret'.ctx].JsonInputSynthesisConfig)
              D == hist.loaded[g].Default
              E == Value(ret'.synth)
          IN  /\ FloatsDuring(O, D, E)
              /\ E.speakerId = IF HasValue(O.SpeakerId) THEN O.SpeakerId
                               ELSE hist.loaded[g].synthesisConfig.speakerId
              /\ SilenceDuring(O.PhonemeSilenceSeconds, D.PhonemeSilenceSeconds,
                               E.phonemeSilenceSeconds)]_vars

----------------------------------------------------------------------------
(* SpecOutputKind: computes for requests with and without an output type,  *)
(* on two contexts of a graph with or without a default output type or of  *)
(* a graph that takes plain text.                                          *)

OutputKindBuilders ==
    {<<"{model:text,json_input}">>,
     <<"{model:text,json_input,output_type:raw,noise_scale:5,...}">>,
     <<"{model:text}">>}
OutputKindCalls ==
    {Call(0, Tensor1(t)) :
        t \in {"{text:hello}", "{text:hello,output_type:raw}",
               "{text:hello,output_type:wav}"}}
OutputKindAudio == {<<513>>}

\* the host after the load of one of the run configs and two initExecCtx
InitOutputKind ==
    \E Builders \in OutputKindBuilders :
      \E l \in {load(<<>>, Builders, None)} :
      \E c \in {initExecCtx(initExecCtx(<<>>, 0).NNContext, 0)} :
            /\ NNGraph = l.NNGraph
            /\ NNContext = c.NNContext
            /\ GraphIdOut = l.GraphId
            /\ hist = [loaded |-> (0 :> Loaded(l.NNGraph[0])), inputSet |-> {},
                       computed |-> {}]
            /\ ret = [op |-> "initExecCtx", err |-> c.err, ContextId |-> c.ContextId]

NextOutputKind ==
    \/ SetInput(OutputKindCalls)
    \/ Compute(OutputKindAudio)

SpecOutputKind == InitOutputKind /\ [][NextOutputKind]_vars

DefaultOutputType(graphs, g) == graphs[g].Config.DefaultSynthesisConfig.OutputType

\* C17: a compute synthesizes the output type of the context's override if
\* the context has an override that sets one, else the graph's default
\* output type if it has one, else WAV, and stores the output in that form;
\* the choice is made anew in every compute, and no step changes a graph's
\* default output type.
C17_EffectiveOutputType ==
    [][/\ (ret'.op = "compute" /\ ret'.err = Success) =>
             LET ctx == ret'.ctx
                 g == NNContext[ctx].GraphId
                 Override == NNContext[ctx].JsonInputSynthesisConfig
                 D == DefaultOutputType(NNGraph, g)
                 Type == IF HasValue(Override) /\ HasValue(Value(Override).OutputType)
                         THEN Value(Override).OutputType
                         ELSE IF HasValue(D) THEN D
                         ELSE Some("OUTPUT_WAV")
             IN  /\ ret'.OutputType = Type
                 /\ NNContext'[ctx].Output
                       = Some(IF Type = Some("OUTPUT_WAV") THEN <<82, 1, 2>> ELSE <<1, 2>>)
       /\ \A g \in DOMAIN NNGraph :
             DefaultOutputType(NNGraph', g) = DefaultOutputType(NNGraph, g)]_vars

\* a request for WAV has been computed on a graph whose default is RAW, on
\* a context that holds another context's default form beside it
C17_Witness ==
    /\ ret.op = "compute" /\ ret.err = Success
    /\ ret.OutputType = Some("OUTPUT_WAV")
    /\ DefaultOutputType(NNGraph, NNContext[ret.ctx].GraphId) = Some("OUTPUT_RAW")
    /\ NNContext[ret.ctx].Output = Some(<<82, 1, 2>>)
    /\ \E other \in DOMAIN NNContext :
          /\ NNContext[other].GraphId = NNContext[ret.ctx].GraphId
          /\ NNContext[other].Output = Some(<<1, 2>>)

----------------------------------------------------------------------------
(* SpecOutputSize: the checks of getOutput on an output and a caller's     *)
(* buffer of sizes from nothing to beyond 32 bits.                         *)

\* 0, 1, 2, 65535, 65536, 2^32 - 2, 2^32 - 1, 2^32, 2^32 + 1 and 2^33
OutputSizes ==
    {SizeT(0), SizeT(1), SizeT(2), SizeT(65535), SizeT(65536),
     [hi |-> 65535, lo |-> 65534], UINT32_MAX,
     [hi |-> 65536, lo |-> 0], [hi |-> 65536, lo |-> 1], [hi |-> 131072, lo |-> 0]}
OutputSizeInputs == [Index : {0, 1}, Size : OutputSizes, Capacity : OutputSizes]

InitOutputSize ==
    /\ NNGraph = <<>>
    /\ NNContext = <<>>
    /\ GraphIdOut = None
    /\ hist = [loaded |-> <<>>, inputSet |-> {}, computed |-> {}]
    /\ \E in \in OutputSizeInputs :
          ret = [op |-> "getOutputCheck", in |-> in, out |-> None]

GetOutputCheck ==
    /\ ret.op = "getOutputCheck"
    /\ ret.out = None
    /\ ret' = [ret EXCEPT !.out = Some(getOutputCheck(ret.in.Index, TRUE,
                                                      ret.in.Size,
                                                      ret.in.Capacity))]
    /\ UNCHANGED <<NNGraph, NNContext, GraphIdOut, hist>>

SpecOutputSize == InitOutputSize /\ [][GetOutputCheck]_vars

----------------------------------------------------------------------------
(* compute in its steps.  Without a host that serializes the calls, the    *)
(* steps of two computes interleave: each call applies its override to the *)
(* voice of its graph, lets the engine synthesize with what the voice then *)
(* holds, and puts the defaults back.  ret holds, per context, how far its *)
(* call has come, the output type it chose and the engine config its       *)
(* synthesis ran with.                                                     *)

\* a lookup that finds one graph for every context
GraphRefId_shared(CxtRef) == 0

\* GraphRef: the graph of the context
GraphRefId(CxtRef) == CxtRef.GraphId

\* the input check, the choice of the output type and "Override config"
computeOverride(graphs, contexts, ContextId) ==
    LET CxtRef == contexts[ContextId]
        GraphId == GraphRefId(CxtRef)
        Voice == Value(graphs[GraphId].Voice)
        Default == graphs[GraphId].Config.DefaultSynthesisConfig
    IN  IF ~inputIsSet(CxtRef)
        THEN [err |-> InvalidArgument, NNGraph |-> graphs, OutputType |-> None]
        ELSE [err |-> Success,
              NNGraph |-> [graphs EXCEPT ![GraphId].Voice =
                              Some([Voice EXCEPT !.synthesisConfig =
                                      applyOverride(CxtRef.JsonInputSynthesisConfig,
                                                    Voice.synthesisConfig)])],
              OutputType |-> Some(effectiveOutputType(Default,
                                                      CxtRef.JsonInputSynthesisConfig))]

\* the synthesis: the engine reads the voice of the graph as it is now
computeSynthesize(graphs, contexts, ContextId, OutputType, AudioBuffer) ==
    LET GraphId == GraphRefId(contexts[ContextId])
    IN  [NNContext |-> [contexts EXCEPT ![ContextId].Output =
                           Some(synthesize(OutputType, AudioBuffer))],
         synth |-> Some(Value(graphs[GraphId].Voice).synthesisConfig)]

\* "Restore config (json_input)"
computeRestore(graphs, contexts, ContextId) ==
    LET GraphId == GraphRefId(contexts[ContextId])
        Voice == Value(graphs[GraphId].Voice)
        Default == graphs[GraphId].Config.DefaultSynthesisConfig
    IN  [err |-> Success,
         NNGraph |-> [graphs EXCEPT ![GraphId].Voice =
                         Some([Voice EXCEPT !.synthesisConfig =
                                 restoreConfig(Default, Voice.synthesisConfig)])]]

\* SpecInterleaved: two graphs, two contexts on one of them or one on each,
\* a request set on either context, and a compute on each in steps.
InterleavedBuilder == <<"{model:text,json_input,output_type:raw,noise_scale:5,...}">>
InterleavedCalls ==
    {Tensor1(t) : t \in {"{text:hello}", "{text:hi,speaker_id:1,noise_scale:7,...}",
                         "{text:yo,length_scale:8}"}}
InterleavedAudio == <<513>>

NotStarted == [pc |-> "start", OutputType |-> None, synth |-> None]

InitInterleaved ==
    \E GraphId \in {0, 1}, t0 \in InterleavedCalls, t1 \in InterleavedCalls :
      \E l0 \in {load(<<>>, InterleavedBuilder, None)} :
      \E l1 \in {load(l0.NNGraph, InterleavedBuilder, l0.GraphId)} :
      \E c0 \in {initExecCtx(<<>>, 0)} :
      \E c1 \in {initExecCtx(c0.NNContext, GraphId)} :
      \E s0 \in {setInput(l1.NNGraph, c1.NNContext, 0, 0, t0)} :
      \E s1 \in {setInput(l1.NNGraph, s0.NNContext, 1, 0, t1)} :
            /\ NNGraph = l1.NNGraph
            /\ NNContext = s1.NNContext
            /\ GraphIdOut = l1.GraphId
            /\ hist = [loaded |-> [g \in {0, 1} |-> Loaded(l1.NNGraph[g])],
                       inputSet |-> {0, 1}, computed |-> {}]
            /\ ret = [op |-> "compute in steps", at |-> [c \in {0, 1} |-> NotStarted]]

ComputeOverride ==
    \E ContextId \in DOMAIN NNContext :
        LET r == computeOverride(NNGraph, NNContext, ContextId)
        IN  /\ ret.op = "compute in steps"
            /\ ret.at[ContextId].pc = "start"
            /\ NNGraph' = r.NNGraph
            /\ ret' = [ret EXCEPT !.at[ContextId] =
                         IF r.err /= Success THEN [@ EXCEPT !.pc = "returned"]
                         ELSE [@ EXCEPT !.pc = "overridden",
                                        !.OutputType = r.OutputType]]
            /\ UNCHANGED <<NNContext, GraphIdOut, hist>>

ComputeSynthesize ==
    \E ContextId \in DOMAIN NNContext :
        /\ ret.op = "compute in steps"
        /\ ret.at[ContextId].pc = "overridden"
        /\ LET r == computeSynthesize(NNGraph, NNContext, ContextId,
                                      Value(ret.at[ContextId].OutputType),
                                      InterleavedAudio)
           IN  /\ NNContext' = r.NNContext
               /\ ret' = [ret EXCEPT !.at[ContextId] =
                            [@ EXCEPT !.pc = "synthesized", !.synth = r.synth]]
        /\ UNCHANGED <<NNGraph, GraphIdOut, hist>>

ComputeRestore ==
    \E ContextId \in DOMAIN NNContext :
        LET r == computeRestore(NNGraph, NNContext, ContextId)
            Override == NNContext[ContextId].JsonInputSynthesisConfig
            GraphId == NNContext[ContextId].GraphId
        IN  /\ ret.op = "compute in steps"
            /\ ret.at[ContextId].pc = "synthesized"
            /\ NNGraph' = r.NNGraph
            /\ hist' = [hist EXCEPT
                          !.computed = @ \cup {ContextId},
                          !.loaded[GraphId].speakerOverrideRan =
                              @ \/ (HasValue(Override)
                                    /\ HasValue(Value(Override).SpeakerId))]
            /\ ret' = [ret EXCEPT !.at[ContextId].pc = "returned"]
            /\ UNCHANGED <<NNContext, GraphIdOut>>

NextInterleaved ==
    \/ ComputeOverride
    \/ ComputeSynthesize
    \/ ComputeRestore

SpecInterleaved == InitInterleaved /\ [][NextInterleaved]_vars

\* the engine config of the graph as load left it
LoadedConfig(ContextId) == hist.loaded[NNContext[ContextId].GraphId].synthesisConfig

\* the engine config a compute of the context runs its synthesis with when
\* nothing else touches the graph
OwnConfig(ContextId) ==
    applyOverride(NNContext[ContextId].JsonInputSynthesisConfig, LoadedConfig(ContextId))

Synthesized(ContextId) == ret.at[ContextId].pc \in {"synthesized", "returned"}

SameGraph(c, d) == NNContext[c].GraphId = NNContext[d].GraphId

\* C19: when the two contexts are of different graphs, however the steps of
\* their computes interleave, the synthesis of each runs with the loaded
\* config of its graph under its own override, and a graph none of whose
\* computes is under way holds its loaded config.
C19_DifferentGraphsIsolated ==
    (ret.op = "compute in steps" /\ ~SameGraph(0, 1))
    => \A c \in {0, 1} :
          /\ Synthesized(c) => ret.at[c].synth = Some(OwnConfig(c))
          /\ ret.at[c].pc \in {"start", "returned"}
             => Value(NNGraph[NNContext[c].GraphId].Voice).synthesisConfig
                = LoadedConfig(c)

\* two contexts of one graph: the synthesis of the one ran with the override
\* of the other on top of its own, and the synthesis of the other ran with
\* the loaded config, its own override put back by the restore of the first
C19_Witness ==
    /\ ret.op = "compute in steps" /\ SameGraph(0, 1)
    /\ \E c \in {0, 1} :
          LET d == 1 - c
          IN  /\ Synthesized(c) /\ Synthesized(d)
              /\ ret.at[c].synth /= Some(OwnConfig(c))
              /\ ret.at[c].synth =
                    Some(applyOverride(NNContext[d].JsonInputSynthesisConfig,
                                       OwnConfig(c)))
              /\ ret.at[d].synth /= Some(OwnConfig(d))
              /\ ret.at[d].synth = Some(LoadedConfig(d))

----------------------------------------------------------------------------
(* SpecJsonInput: loads of run configs without json_input, with a boolean  *)
(* one and with one of another type, beside run configs with another       *)
(* option of the wrong type, and requests to the graphs they leave.        *)

JsonInputBuilders ==
    {<<"{model:text}">>, <<"{model:text,json_input}">>, <<"{model:text,json_input:false}">>,
     <<"{model:text,json_input:yes}">>, <<"{model:text,json_input:1}">>,
     <<"{model:text,json_input:null}">>}
\* a model that is a number, a speaker that is a string
MistypedBuilders == {<<"{model:5}">>, <<"{model:text,speaker:alice}">>}
JsonInputCalls == {Call(0, Tensor1("{text:hello}"))}

NextJsonInput ==
    \/ Load(JsonInputBuilders \cup MistypedBuilders)
    \/ InitExecCtx
    \/ SetInput(JsonInputCalls)

SpecJsonInput == Init /\ [][NextJsonInput]_vars

\* the json_input of the run config in the builder
JsonInputOf(Builders) == Parse(Builders[1]).f["json_input"]

\* C20: a load of a run config without json_input succeeds and leaves
\* JsonInput false; with a boolean json_input it succeeds and stores the
\* boolean; with a json_input of another type it returns InvalidArgument
\* and the graph it allocated is gone from the table, the caller's GraphId
\* untouched, as for every other option of the wrong type.
C20_JsonInputOption ==
    [][ret'.op = "load" =>
          /\ (ret'.Builders \in JsonInputBuilders
              /\ JsonInputOf(ret'.Builders).k = "absent")
             => /\ ret'.err = Success
                /\ NNGraph'[Value(GraphIdOut')].Config.JsonInput = FALSE
          /\ (ret'.Builders \in JsonInputBuilders
              /\ JsonInputOf(ret'.Builders).k = "bool")
             => /\ ret'.err = Success
                /\ NNGraph'[Value(GraphIdOut')].Config.JsonInput
                   = (JsonInputOf(ret'.Builders) = JBool(TRUE))
          /\ (\/ ret'.Builders \in JsonInputBuilders
                 /\ JsonInputOf(ret'.Builders).k \notin {"absent", "bool"}
              \/ ret'.Builders \in MistypedBuilders)
             => /\ ret'.err = InvalidArgument
                /\ ret'.allocated
                /\ NNGraph' = NNGraph
                /\ GraphIdOut' = GraphIdOut]_vars

\* a load with a json_input that is a string has failed beside a graph
\* loaded with json_input false, which took a request as plain text
C20_Witness ==
    /\ ret.op = "load" /\ ret.err = InvalidArgument /\ ret.allocated
    /\ ret.Builders = <<"{model:text,json_input:yes}">>
    /\ DOMAIN NNGraph = {0}
    /\ GraphIdOut = Some(0)
    /\ ~NNGraph[0].Config.JsonInput
    /\ \E c \in DOMAIN NNContext : NNContext[c].Line = Some("{text:hello}")

----------------------------------------------------------------------------
(* SpecFrame: a graph in JSON-input mode with two contexts, a graph for    *)
(* plain text with one, and every setInput, compute and getOutput on       *)
(* them.                                                                   *)

FrameBuilders == <<"{model:en,espeak_data,json_input}", "{model:text}">>
FrameCalls ==
    {Call(0, Tensor1("{text:hi,speaker_id:1,noise_scale:7,...}")),
     Call(0, Tensor1("{text:hello}")), Call(0, Tensor1("{text:bye,noise_scale:loud}"))}
FrameAudio == {<<513>>}
FrameOutputs == {[Index |-> 0, Capacity |-> MaxCap]}

\* the host after the two loads and three initExecCtx
InitFrame ==
    \E l0 \in {load(<<>>, <<FrameBuilders[1]>>, None)} :
    \E l1 \in {load(l0.NNGraph, <<FrameBuilders[2]>>, l0.GraphId)} :
    \E c0 \in {initExecCtx(<<>>, 0)} :
    \E c1 \in {initExecCtx(c0.NNContext, 0)} :
    \E c2 \in {initExecCtx(c1.NNContext, 1)} :
        /\ NNGraph = l1.NNGraph
        /\ NNContext = c2.NNContext
        /\ GraphIdOut = l1.GraphId
        /\ hist = [loaded |-> [g \in {0, 1} |-> Loaded(l1.NNGraph[g])],
                   inputSet |-> {}, computed |-> {}]
        /\ ret = [op |-> "initExecCtx", err |-> c2.err, ContextId |-> c2.ContextId]

NextFrame ==
    \/ SetInput(FrameCalls)
    \/ Compute(FrameAudio)
    \/ GetOutput(FrameOutputs)

SpecFrame == InitFrame /\ [][NextFrame]_vars

\* the engine synthesis config of a graph
EngineOf(graphs, g) == Value(graphs[g].Voice).synthesisConfig

\* C21: a setInput, compute or getOutput leaves the RunConfig of every graph
\* as it was; a setInput or getOutput leaves the engine synthesis config of
\* every graph as it was; and the call leaves every context other than its
\* own, and every graph other than that of its context, as it was.
C21_Frame ==
    [][ret'.op \in {"setInput", "compute", "getOutput"} =>
          /\ DOMAIN NNGraph' = DOMAIN NNGraph
          /\ DOMAIN NNContext' = DOMAIN NNContext
          /\ \A g \in DOMAIN NNGraph : NNGraph'[g].Config = NNGraph[g].Config
          /\ ret'.op \in {"setInput", "getOutput"}
             => \A g \in DOMAIN NNGraph : EngineOf(NNGraph', g) = EngineOf(NNGraph, g)
          /\ \A c \in DOMAIN NNContext \ {ret'.ctx} : NNContext'[c] = NNContext[c]
          /\ \A g \in DOMAIN NNGraph \ {NNContext[ret'.ctx].GraphId} :
                NNGraph'[g] = NNGraph[g]]_vars

\* a compute has run with an override on one context of the JSON-input
\* graph while the other context of that graph holds another request and
\* its output, and the context of the other graph holds a request
C21_Witness ==
    /\ ret.op = "compute" /\ ret.err = Success /\ ret.ctx = 0
    /\ ret.synth /= Some(hist.loaded[0].synthesisConfig)
    /\ NNContext[1].Line = Some("hello")
    /\ HasValue(NNContext[1].Output)
    /\ NNContext[2].Line = Some("{text:hello}")

----------------------------------------------------------------------------
(* SpecOverride: one context of a graph in JSON-input mode and one of a    *)
(* graph for plain text, requests with every override field, with one and  *)
(* with none, a request that is refused, and computes between them.        *)

OverrideBuilders == <<"{model:en,espeak_data,json_input}", "{model:text}">>
OverrideCalls ==
    {Call(0, Tensor1(t)) :
        t \in {"{text:hi,speaker_id:1,noise_scale:7,...}", "{text:hello}",
               "{text:yo,length_scale:8}", "{text:bye,noise_scale:loud}"}}
OverrideAudio == {<<513>>}

\* the host after the two loads and an initExecCtx on either graph
InitOverride ==
    \E l0 \in {load(<<>>, <<OverrideBuilders[1]>>, None)} :
    \E l1 \in {load(l0.NNGraph, <<OverrideBuilders[2]>>, l0.GraphId)} :
    \E c0 \in {initExecCtx(<<>>, 0)} :
    \E c1 \in {initExecCtx(c0.NNContext, 1)} :
        /\ NNGraph = l1.NNGraph
        /\ NNContext = c1.NNContext
        /\ GraphIdOut = l1.GraphId
        /\ hist = [loaded |-> [g \in {0, 1} |-> Loaded(l1.NNGraph[g])],
                   inputSet |-> {}, computed |-> {}]
        /\ ret = [op |-> "initExecCtx", err |-> c1.err, ContextId |-> c1.ContextId]

NextOverride ==
    \/ SetInput(OverrideCalls)
    \/ Compute(OverrideAudio)

SpecOverride == InitOverride /\ [][NextOverride]_vars

\* the override fields each request names, as floats
RequestOverride(String) ==
    CASE String = "{text:hello}" -> EmptySynthesisConfig
      [] String = "{text:yo,length_scale:8}" ->
           [EmptySynthesisConfig EXCEPT !.LengthScale = Some(8)]
      [] String = "{text:hi,speaker_id:1,noise_scale:7,...}" ->
           [OutputType |-> None, SpeakerId |-> Some(1), NoiseScale |-> Some(6),
            LengthScale |-> Some(6), NoiseW |-> Some(6),
            SentenceSilenceSeconds |-> Some(6),
            PhonemeSilenceSeconds |-> Some(97 :> 6 @@ 98 :> 6)]

OverrideOf(contexts, c) == contexts[c].JsonInputSynthesisConfig

\* C22: in JSON-input mode a setInput that succeeds leaves on its context
\* exactly the override fields its request names, none of an earlier
\* request; a setInput that fails and a compute leave the override of every
\* context as it was; a compute runs its synthesis with the context's
\* override applied to the engine config load left; and a context of a
\* graph for plain text carries no override, its compute running with the
\* engine config load left and leaving it so.
C22_LatestOverride ==
    [][/\ (ret'.op = "setInput" /\ ret'.err = Success /\ JsonMode(ret'.ctx))
          => OverrideOf(NNContext', ret'.ctx) = Some(RequestOverride(ret'.Tensor.Tensor))
       /\ (ret'.op = "compute" \/ (ret'.op = "setInput" /\ ret'.err /= Success))
          => \A c \in DOMAIN NNContext : OverrideOf(NNContext', c) = OverrideOf(NNContext, c)
       /\ (ret'.op = "compute" /\ ret'.err = Success)
          => ret'.synth = Some(applyOverride(OverrideOf(NNContext, ret'.ctx),
                                             LoadedConfig(ret'.ctx)))
       /\ \A c \in DOMAIN NNContext :
             ~JsonMode(c)
             => /\ OverrideOf(NNContext', c) = None
                /\ (ret'.op = "compute" /\ ret'.err = Success /\ ret'.ctx = c)
                   => /\ ret'.synth = Some(LoadedConfig(c))
                      /\ EngineOf(NNGraph', NNContext[c].GraphId) = LoadedConfig(c)]_vars

\* a compute has run on the JSON-input context with the empty override of
\* its latest request, on the engine config load left, after a compute with
\* the override of an earlier request that named a speaker
C22_Witness ==
    /\ ret.op = "compute" /\ ret.err = Success /\ ret.ctx = 0
    /\ NNContext[0].Line = Some("hello")
    /\ OverrideOf(NNContext, 0) = Some(EmptySynthesisConfig)
    /\ hist.loaded[0].speakerOverrideRan
    /\ ret.synth = Some(LoadedConfig(0))

====
